---- MODULE Spec2Model ----
(***************************************************************************)
(* Dual-slot database credential rotation (tools/credential-rotation).     *)
(*                                                                         *)
(* The model follows RotationOrchestrator.rotate() statement by statement. *)
(* External systems are state variables: the slot secret and the admin     *)
(* secret (Secrets Manager), the database accounts (RDS), sqlconf.php on   *)
(* EFS, the Kubernetes Secret and the Deployment's restart annotation.     *)
(* Python dicts are functions whose DOMAIN is the set of keys present.     *)
(* Passwords are positive integers; generate_password() draws the next     *)
(* unused one.  All other field values are strings.                        *)
(***************************************************************************)
EXTENDS Integers, Sequences, FiniteSets, TLC

\* ---------------------------------------------------------------- bounds
\* Rotation cycles (calls of rotate()) in one behaviour.
MaxCycles == 2

\* ------------------------------------------------------------- constants
\* Passwords in use before the first cycle; generate_password() never
\* returns one of them (collisions of 30 random characters are excluded).
Pw0 == [A |-> 1, B |-> 2, admin |-> 3, legacy |-> 4, stale |-> 5]
FirstFreshPw == Pw0.stale + 1

DbHost == "db.example.com"
DbPort == "3306"
DbName == "openemr"
AdminUser == "admin"
LegacyUser == "legacy"
DefaultSlotUser == "openemr_slot"

SlotNames == {"A", "B"}

\* ------------------------------------------------------- dict primitives
Get(d, k, dflt) == IF k \in DOMAIN d THEN d[k] ELSE dflt

DictSet(d, k, v) == [x \in (DOMAIN d) \cup {k} |-> IF x = k THEN v ELSE d[x]]

SetDefault(d, k, v) == IF k \in DOMAIN d THEN d ELSE DictSet(d, k, v)

Has(d, keys) == keys \subseteq DOMAIN d

EmptyDict == [x \in {} |-> 0]

Slot(u, p, h, po, n) ==
    [k \in {"username", "password", "host", "port", "dbname"} |->
        CASE k = "username" -> u
          [] k = "password" -> p
          [] k = "host" -> h
          [] k = "port" -> po
          [] k = "dbname" -> n]

Without(d, keys) == [k \in (DOMAIN d) \ keys |-> d[k]]

\* ------------------------------------------------- secrets_manager.py
\* Faulty variant: every label other than "A" is taken for "B".
standby_slot_else_a(active_slot) ==
    IF active_slot = "A" THEN "B" ELSE "A"

standby_slot(active_slot) ==
    IF active_slot = "A" THEN "B" ELSE IF active_slot = "B" THEN "A" ELSE "ValueError"

\* Faulty variant: a missing or invalid label is taken for "A".
active_slot_of_default_a(payload) ==
    IF Get(payload, "active_slot", "None") \in SlotNames
    THEN payload["active_slot"] ELSE "A"

\* SlotSecretState.active_slot: the label, or ValueError.
active_slot_of(payload) ==
    IF Get(payload, "active_slot", "None") \in SlotNames
    THEN payload["active_slot"] ELSE "ValueError"

\* SlotSecretState.slot(name) raises unless payload[name] is a dict.
slot_ok(payload, name) == name \in DOMAIN payload

\* ------------------------------------------------------- efs_editor.py
SqlVars == {"host", "port", "login", "pass", "dbase"}

_SQLCONF_KEY_TO_VAR(key) ==
    CASE key = "host" -> "host"
      [] key = "port" -> "port"
      [] key = "username" -> "login"
      [] key = "password" -> "pass"
      [] key = "dbname" -> "dbase"

SlotKeys == {"host", "port", "username", "password", "dbname"}

\* File content: the assignments present (by PHP variable) plus the opaque
\* remainder of the file under "rest".
parse_sqlconf(content) ==
    [key \in {k \in SlotKeys : _SQLCONF_KEY_TO_VAR(k) \in DOMAIN content} |->
        content[_SQLCONF_KEY_TO_VAR(key)]]

\* render_sqlconf raises KeyError for a slot without host/username/password/
\* dbname and ValueError when an assignment is not found in the content.
render_ok(content, slot) ==
    /\ Has(slot, {"host", "username", "password", "dbname"})
    /\ SqlVars \subseteq DOMAIN content

\* Faulty variant: the password line is left as it was.
render_sqlconf_keeps_pass(content, slot) ==
    [v \in DOMAIN content |->
        CASE v = "host" -> slot["host"]
          [] v = "port" -> Get(slot, "port", "3306")
          [] v = "login" -> slot["username"]
          [] v = "dbase" -> slot["dbname"]
          [] OTHER -> content[v]]

render_sqlconf(content, slot) ==
    [v \in DOMAIN content |->
        CASE v = "host" -> slot["host"]
          [] v = "port" -> Get(slot, "port", "3306")
          [] v = "login" -> slot["username"]
          [] v = "pass" -> slot["password"]
          [] v = "dbase" -> slot["dbname"]
          [] OTHER -> content[v]]

\* ------------------------------------------------------- k8s_refresh.py
\* patch_namespaced_secret merges the four data keys into the Secret.
update_k8s_db_secret_ok(slot) == Has(slot, {"host", "username", "password", "dbname"})

update_k8s_db_secret(secret, slot) ==
    [k \in (DOMAIN secret) \cup {"mysql-host", "mysql-user", "mysql-password", "mysql-database"} |->
        CASE k = "mysql-host" -> slot["host"]
          [] k = "mysql-user" -> slot["username"]
          [] k = "mysql-password" -> slot["password"]
          [] k = "mysql-database" -> slot["dbname"]
          [] OTHER -> secret[k]]

\* ------------------------------------------------- validators.py (35-50)
\* What requests.get does: there is no URL to probe, the call raises
\* (unreachable, timeout), or a response with a status code comes back.
ProbeOutcomes == {"no_url", "exception", "200", "301", "302", "404", "503"}

\* Faulty variant: no try/except around the request, and a bad status raises.
validate_openemr_health_strict(outcome) ==
    IF outcome = "no_url" THEN [raised |-> FALSE, warned |-> FALSE]
    ELSE IF outcome \in {"200", "301", "302"} THEN [raised |-> FALSE, warned |-> FALSE]
    ELSE [raised |-> TRUE, warned |-> FALSE]

validate_openemr_health(outcome) ==
    IF outcome = "no_url" THEN [raised |-> FALSE, warned |-> FALSE]
    ELSE IF outcome = "exception" THEN [raised |-> FALSE, warned |-> TRUE]
    ELSE IF outcome \notin {"200", "301", "302"} THEN [raised |-> FALSE, warned |-> TRUE]
    ELSE [raised |-> FALSE, warned |-> FALSE]

\* ---------------------------------------------------------- database
\* accounts: username -> password.  A connection needs the right endpoint,
\* an existing account and its current password.
Connects(accounts, host, port, user, password) ==
    /\ host = DbHost
    /\ port = DbPort
    /\ user \in DOMAIN accounts
    /\ accounts[user] = password

\* validators.validate_rds_connection(slot)
validate_rds_connection(accounts, slot) ==
    /\ Has(slot, {"host", "username", "password", "dbname"})
    /\ slot["dbname"] = DbName
    /\ Connects(accounts, slot["host"], Get(slot, "port", "3306"), slot["username"], slot["password"])

\* --------------------------------------------------------------- state
VARIABLES
    secret_slots,   \* payload of the slot secret (RDS_SLOT_SECRET_ID)
    secret_admin,   \* payload of the admin secret (RDS_ADMIN_SECRET_ID)
    accounts,       \* database accounts: username -> password
    sqlconf,        \* content of sites/default/sqlconf.php
    k8s_secret,     \* data of the Kubernetes Secret (decoded)
    nextPw,         \* next value generate_password() returns
    cycles,         \* calls of rotate() started so far
    pc,             \* position of the running rotate(), "idle" when none runs
    dry_run,        \* ctx.dry_run of the running (or last) call
    loc,            \* local variables of rotate() and its callees
    result,         \* outcome of the last call: none, ok, failed, killed
    err,            \* the step whose exception the last call raised
    branch,         \* reconciliation branch the call took
    pre,            \* external state when the call started
    w               \* what the call did: writes per external system, the
                    \* accounts it provisioned, the cutover step that raised

vars == <<secret_slots, secret_admin, accounts, sqlconf, k8s_secret, nextPw, cycles,
          pc, dry_run, loc, result, err, branch, pre, w>>

ext == <<secret_slots, secret_admin, accounts, sqlconf, k8s_secret>>

NoLoc ==
    [rds_state |-> EmptyDict, active |-> "", standby |-> "", current_sqlconf |-> EmptyDict,
     slot_a |-> EmptyDict, slot_b |-> EmptyDict,
     original_sqlconf_content |-> EmptyDict, updated_sqlconf_content |-> EmptyDict,
     new_active |-> "", old_slot |-> "", age_state |-> EmptyDict, old_rds |-> EmptyDict,
     new_password |-> 0, caught |-> "", rb_done |-> <<>>]

NoWrites ==
    [slot_puts |-> 0, admin_puts |-> 0, conf_writes |-> 0, k8s_patches |-> 0,
     restarts |-> 0, db_stmts |-> 0, admin_alters |-> 0, rollbacks |-> 0,
     upserts |-> {}, cut_db |-> "none", rb_db |-> "none", probe |-> "none"]

\* The state an entry point (`op`) finds when it is called, with how the
\* previous call (`prev_op`) ended.
SnapshotOf(op, prev_op) ==
    [secret_slots |-> secret_slots, secret_admin |-> secret_admin, accounts |-> accounts,
     sqlconf |-> sqlconf, k8s_secret |-> k8s_secret, nextPw |-> nextPw,
     result |-> result, dry_run |-> dry_run, admin_alters |-> w.admin_alters,
     op |-> op, prev_op |-> prev_op]

Snapshot == SnapshotOf("rotate", pre.op)

\* ------------------------------------------------- rotate.py: helpers
\* _slot_matches_sqlconf: Python compares sqlconf.get(k) with str(slot.get(k));
\* an absent key gives None on the left and "None" on the right, which no
\* value of the model equals, so a field matches only when both sides have it.
FieldMatches(slot, conf, k) == k \in DOMAIN conf /\ k \in DOMAIN slot /\ conf[k] = slot[k]

_slot_matches_sqlconf(slot, conf) ==
    /\ FieldMatches(slot, conf, "host")
    /\ Get(conf, "port", "3306") = Get(slot, "port", "3306")
    /\ FieldMatches(slot, conf, "username")
    /\ FieldMatches(slot, conf, "password")
    /\ FieldMatches(slot, conf, "dbname")

\* _ensure_slot_initialized: five setdefault calls; pw is the password that
\* generate_password() produced for the call.
_ensure_slot_initialized(slot, fallback_host, fallback_db, pw) ==
    SetDefault(SetDefault(SetDefault(SetDefault(SetDefault(slot,
        "username", DefaultSlotUser), "password", pw), "host", fallback_host),
        "port", "3306"), "dbname", fallback_db)

AdminConnects(accts, admin, password) ==
    Connects(accts, Get(admin, "host", ""), Get(admin, "port", "3306"), admin["username"], password)

\* One iteration of the fallback loop of _load_admin_secret over slot `name`:
\* "adopt", "continue", or the exception raised.
AdminFallback(accts, admin, payload, name) ==
    IF ~slot_ok(payload, name) THEN "ValueError"
    ELSE IF Get(payload[name], "username", "None") # admin["username"] THEN "continue"
    ELSE IF "password" \notin DOMAIN payload[name] THEN "KeyError"
    ELSE IF AdminConnects(accts, admin, payload[name]["password"]) THEN "adopt"
    ELSE "continue"

\* _load_admin_secret: [status, admin, wrote]; status "ok" or the exception.
\* `wrote` says whether put_payload rewrote the admin secret.
\* Faulty variant: the stored admin credential is returned unprobed.
_load_admin_secret_unprobed(accts, admin, payload) ==
    [status |-> "ok", wrote |-> FALSE, admin |-> admin]

\* Faulty variant: slot B is examined before slot A.
_load_admin_secret_b_first(accts, admin, payload) ==
    LET adopt(name) == [status |-> "ok", wrote |-> TRUE,
                        admin |-> DictSet(admin, "password", payload[name]["password"])]
        raise(e) == [status |-> e, wrote |-> FALSE, admin |-> admin]
        a == AdminFallback(accts, admin, payload, "A")
        b == AdminFallback(accts, admin, payload, "B")
    IN  IF AdminConnects(accts, admin, admin["password"])
        THEN [status |-> "ok", wrote |-> FALSE, admin |-> admin]
        ELSE IF b = "adopt" THEN adopt("B")
        ELSE IF b # "continue" THEN raise(b)
        ELSE IF a = "adopt" THEN adopt("A")
        ELSE IF a # "continue" THEN raise(a)
        ELSE raise("RuntimeError")

_load_admin_secret(accts, admin, payload) ==
    LET adopt(name) == [status |-> "ok", wrote |-> TRUE,
                        admin |-> DictSet(admin, "password", payload[name]["password"])]
        raise(e) == [status |-> e, wrote |-> FALSE, admin |-> admin]
        a == AdminFallback(accts, admin, payload, "A")
        b == AdminFallback(accts, admin, payload, "B")
    IN  IF AdminConnects(accts, admin, admin["password"])
        THEN [status |-> "ok", wrote |-> FALSE, admin |-> admin]
        ELSE IF a = "adopt" THEN adopt("A")
        ELSE IF a # "continue" THEN raise(a)
        ELSE IF b = "adopt" THEN adopt("B")
        ELSE IF b # "continue" THEN raise(b)
        ELSE raise("RuntimeError")

\* The statements _upsert_openemr_db_user executes once connected as admin:
\* CREATE USER IF NOT EXISTS, ALTER USER ... IDENTIFIED BY, GRANT.
UpsertStatements(accts, slot) == DictSet(accts, slot["username"], slot["password"])

\* _upsert_openemr_db_user(slot): [status, accounts, admin, wrote, stmts].
_upsert_openemr_db_user(accts, admin, payload, slot) ==
    LET la == _load_admin_secret(accts, admin, payload)
        raise(e) == [status |-> e, accounts |-> accts, admin |-> la.admin,
                     wrote |-> la.wrote, stmts |-> 0]
    IN  IF la.status # "ok" THEN raise(la.status)
        ELSE IF "dbname" \notin DOMAIN slot THEN raise("KeyError")
        ELSE IF ~Has(slot, {"username", "password"}) THEN raise("KeyError")
        ELSE [status |-> "ok", accounts |-> UpsertStatements(accts, slot),
              admin |-> la.admin, wrote |-> la.wrote, stmts |-> 1]

\* ---------------------------------------------------------------- Init
\* Deployments the tool is run against.  `share` names the slot whose
\* account is the administrator account (slot records written before the
\* dedicated openemr_a / openemr_b accounts existed), `conf` says what
\* sqlconf.php holds, `missing` the keys absent from the standby record,
\* `stale` whether the admin secret lags behind the database, `mirror`
\* whose credentials the Kubernetes Secret holds ("active": an earlier
\* cutover wrote the file and was interrupted before it patched the Secret),
\* `lacks` the assignment that sqlconf.php does not hold.
SlotUser(name, share) ==
    IF share = name THEN AdminUser ELSE IF name = "A" THEN "openemr_a" ELSE "openemr_b"

SlotPw(name, share) == IF share = name THEN Pw0.admin ELSE Pw0[name]

FullSlot(name, share) == Slot(SlotUser(name, share), SlotPw(name, share), DbHost, DbPort, DbName)

Shapes ==
    {sh \in [active : SlotNames, share : {"none", "A", "B"},
             conf : {"active", "standby", "legacy", "admin"},
             missing : {{}, {"port"}, {"password"}}, stale : BOOLEAN,
             mirror : {"conf", "active"}, lacks : {"none", "port", "pass"}] :
        /\ sh.conf = "standby" => sh.missing = {}
        /\ sh.stale => sh.share # "none"
        /\ sh.missing # {} => sh.share = "none"
        /\ sh.mirror = "active" => (sh.conf = "standby" /\ sh.share = "none")
        /\ sh.lacks # "none" => /\ sh.conf = "active" /\ sh.share = "none"
                                /\ sh.missing = {} /\ ~sh.stale}

\* Deployments with dedicated slot accounts, complete records and a config
\* that references a slot.
PlainShapes ==
    {sh \in Shapes : /\ sh.share = "none" /\ sh.missing = {} /\ sh.lacks = "none"
                     /\ sh.conf \in {"active", "standby"}}

InitSlots(sh) ==
    LET sb == standby_slot(sh.active)
    IN  [k \in {"active_slot", "A", "B"} |->
            IF k = "active_slot" THEN sh.active
            ELSE IF k = sb THEN Without(FullSlot(k, sh.share), sh.missing)
            ELSE FullSlot(k, sh.share)]

InitConf(sh) ==
    LET s == CASE sh.conf = "active" -> FullSlot(sh.active, sh.share)
               [] sh.conf = "standby" -> FullSlot(standby_slot(sh.active), sh.share)
               [] sh.conf = "legacy" -> Slot(LegacyUser, Pw0.legacy, DbHost, DbPort, DbName)
               [] sh.conf = "admin" -> Slot(AdminUser, Pw0.admin, DbHost, DbPort, DbName)
    IN  [v \in (SqlVars \ {sh.lacks}) \cup {"rest"} |->
            CASE v = "host" -> s["host"]
              [] v = "port" -> s["port"]
              [] v = "login" -> s["username"]
              [] v = "pass" -> s["password"]
              [] v = "dbase" -> s["dbname"]
              [] v = "rest" -> "unmanaged"]

InitAccounts(sh) ==
    [u \in {AdminUser, LegacyUser, SlotUser("A", sh.share), SlotUser("B", sh.share)} |->
        CASE u = AdminUser -> Pw0.admin
          [] u = LegacyUser -> Pw0.legacy
          [] u = "openemr_a" -> Pw0.A
          [] u = "openemr_b" -> Pw0.B]

\* The deployment of shape `sh` with `slots` as the slot document.
InitWith(sh, slots) ==
        /\ secret_slots = slots
        /\ secret_admin = [k \in {"username", "password", "host", "port"} |->
                CASE k = "username" -> AdminUser
                  [] k = "password" -> IF sh.stale THEN Pw0.stale ELSE Pw0.admin
                  [] k = "host" -> DbHost
                  [] k = "port" -> DbPort]
        /\ accounts = InitAccounts(sh)
        /\ sqlconf = InitConf(sh)
        /\ k8s_secret = update_k8s_db_secret(EmptyDict,
                IF sh.mirror = "active" THEN FullSlot(sh.active, sh.share)
                ELSE parse_sqlconf(InitConf([sh EXCEPT !.lacks = "none"])))
        /\ nextPw = FirstFreshPw
        /\ cycles = 0
        /\ pc = "idle"
        /\ dry_run = FALSE
        /\ loc = NoLoc
        /\ result = "none"
        /\ err = ""
        /\ branch = ""
        /\ w = NoWrites
        /\ pre = SnapshotOf("none", "none")

InitFrom(sh) == InitWith(sh, InitSlots(sh))

Init ==
    \/ \E sh \in PlainShapes : InitFrom(sh)
    \/ \E sh \in Shapes \ PlainShapes : InitFrom(sh)

\* -------------------------------------------------------- control flow
\* rotate() returns (res = "ok") or raises (res = "failed", e the exception).
\* The locals go away; loc.caught keeps the exception the except clause of
\* rotate.py 121 caught, if any.
\* The call's locals are gone; `caught` stays as a record of what the
\* except clause of rotate.py 120 caught, `rb_done` of the calls _rollback
\* made that returned.
Return(res, e) ==
    /\ pc' = "idle"
    /\ result' = res
    /\ err' = e
    /\ loc' = [NoLoc EXCEPT !.caught = loc.caught, !.rb_done = loc.rb_done]

\* A call that ends before it has any locals.
Abort(e) ==
    /\ pc' = "idle"
    /\ result' = "failed"
    /\ err' = e
    /\ loc' = NoLoc

Goto(label) == pc' = label /\ UNCHANGED <<result, err>>

Count(field, n) == w' = [w EXCEPT ![field] = @ + n]

Flag(b) == IF b THEN 1 ELSE 0

\* Bookkeeping of a successful _upsert_openemr_db_user(slot).
Provisioned(up, slot) ==
    [w EXCEPT !.db_stmts = @ + up.stmts, !.admin_puts = @ + Flag(up.wrote),
              !.upserts = @ \cup {<<slot["username"], slot["password"]>>}]

\* ------------------------------------------------------------ rotate()
\* rotate.py 39-45: discover_runtime_paths, get_secret, active_slot, standby_slot.
rotate_begin ==
    /\ pc = "idle"
    /\ cycles < MaxCycles
    /\ cycles' = cycles + 1
    /\ pre' = Snapshot
    /\ w' = NoWrites
    /\ branch' = ""
    /\ UNCHANGED <<ext, nextPw>>
    /\ \E d \in BOOLEAN :
        /\ dry_run' = d
        /\ \/ Abort("fault:get_secret")
           \/ /\ active_slot_of(secret_slots) = "ValueError"
              /\ Abort("ValueError")
           \/ /\ active_slot_of(secret_slots) # "ValueError"
              /\ loc' = [NoLoc EXCEPT !.rds_state = secret_slots,
                                      !.active = active_slot_of(secret_slots),
                                      !.standby = standby_slot(active_slot_of(secret_slots))]
              /\ pc' = IF d THEN "read" ELSE "load_admin"
              /\ result' = "running"
              /\ err' = ""

\* rotate.py 47-48: if not dry_run: self._load_admin_secret()
rotate_load_admin ==
    /\ pc = "load_admin"
    /\ UNCHANGED <<secret_slots, accounts, sqlconf, k8s_secret, nextPw, cycles, dry_run, branch, pre>>
    /\ LET la == _load_admin_secret(accounts, secret_admin, secret_slots)
       IN  \/ /\ UNCHANGED <<secret_admin, w>>
              /\ Return("failed", "fault:load_admin")
           \/ /\ la.status = "ok"
              /\ secret_admin' = la.admin
              /\ Count("admin_puts", Flag(la.wrote))
              /\ Goto("read")
              /\ UNCHANGED loc
           \/ /\ la.status # "ok"
              /\ UNCHANGED <<secret_admin, w>>
              /\ Return("failed", la.status)

\* rotate.py 50-55: parse the config, take both slot records, fill defaults
\* in place (the records stay part of rds_state.payload).
rotate_read ==
    /\ pc = "read"
    /\ UNCHANGED <<ext, cycles, dry_run, branch, pre, w>>
    /\ LET st == loc.rds_state
           a == loc.active
           s == loc.standby
       IN  \/ /\ UNCHANGED nextPw
              /\ Return("failed", "fault:read_text")
           \/ /\ ~(slot_ok(st, a) /\ slot_ok(st, s))
              /\ UNCHANGED nextPw
              /\ Return("failed", "ValueError")
           \/ /\ slot_ok(st, a) /\ slot_ok(st, s)
              /\ ~Has(st[a], {"host", "dbname"})
              /\ UNCHANGED nextPw
              /\ Return("failed", "KeyError")
           \/ /\ slot_ok(st, a) /\ slot_ok(st, s)
              /\ Has(st[a], {"host", "dbname"})
              /\ LET sb == _ensure_slot_initialized(st[s], st[a]["host"], st[a]["dbname"], nextPw)
                     n1 == nextPw + Flag("password" \notin DOMAIN st[s])
                     ac == _ensure_slot_initialized(st[a], sb["host"], sb["dbname"], n1)
                     n2 == n1 + Flag("password" \notin DOMAIN st[a])
                 IN  /\ nextPw' = n2
                     /\ loc' = [loc EXCEPT !.current_sqlconf = parse_sqlconf(sqlconf),
                                           !.rds_state = DictSet(DictSet(st, s, sb), a, ac)]
              /\ Goto(IF dry_run THEN "classify" ELSE "sync_A")

\* rotate.py 57-60: provision both slots' accounts with the stored passwords.
rotate_sync(name) ==
    /\ pc = "sync_" \o name
    /\ UNCHANGED <<secret_slots, sqlconf, k8s_secret, nextPw, cycles, dry_run, branch, pre>>
    /\ LET up == _upsert_openemr_db_user(accounts, secret_admin, secret_slots, loc.rds_state[name])
       IN  \/ /\ UNCHANGED <<accounts, secret_admin, w>>
              /\ Return("failed", "fault:upsert")
           \/ /\ up.status = "ok"
              /\ accounts' = up.accounts
              /\ secret_admin' = up.admin
              /\ w' = Provisioned(up, loc.rds_state[name])
              /\ Goto(IF name = "A" THEN "sync_B" ELSE "classify")
              /\ UNCHANGED loc
           \/ /\ up.status # "ok"
              /\ UNCHANGED accounts
              /\ secret_admin' = up.admin
              /\ Count("admin_puts", Flag(up.wrote))
              /\ Return("failed", up.status)

\* rotate.py 65, 78, 84: the reconciliation branch.
\* Faulty variant: a config that matches the standby slot is not told apart
\* from the steady state.
BranchOf_no_drift(config_matches_active, config_matches_standby, active) ==
    IF ~config_matches_active /\ ~config_matches_standby THEN "bootstrap"
    ELSE IF active = "B" THEN "aging"
    ELSE "normal"

\* Faulty variant: active = "B" is not told apart from the steady state.
BranchOf_no_aging(config_matches_active, config_matches_standby, active) ==
    IF ~config_matches_active /\ ~config_matches_standby THEN "bootstrap"
    ELSE IF config_matches_standby /\ ~config_matches_active THEN "drift"
    ELSE "normal"

BranchOf(config_matches_active, config_matches_standby, active) ==
    IF ~config_matches_active /\ ~config_matches_standby THEN "bootstrap"
    ELSE IF config_matches_standby /\ ~config_matches_active THEN "drift"
    ELSE IF active = "B" THEN "aging"
    ELSE "normal"

\* rotate.py 62-88: the branch decision.  Bootstrap draws its two passwords
\* here (rotate.py 207-220).
rotate_classify ==
    /\ pc = "classify"
    /\ UNCHANGED <<ext, cycles, dry_run, pre, w, result, err>>
    /\ LET st == loc.rds_state
           cma == _slot_matches_sqlconf(st[loc.active], loc.current_sqlconf)
           cms == _slot_matches_sqlconf(st[loc.standby], loc.current_sqlconf)
           conf == loc.current_sqlconf
           port == Get(conf, "port", "3306")
           b == BranchOf(cma, cms, loc.active)
       IN  /\ branch' = b
           /\ CASE b = "bootstrap" ->
                    /\ nextPw' = nextPw + 2
                    /\ loc' = [loc EXCEPT
                          !.slot_a = Slot("openemr_a", nextPw, Get(conf, "host", ""), port,
                                          Get(conf, "dbname", "openemr")),
                          !.slot_b = Slot("openemr_b", nextPw + 1, Get(conf, "host", ""), port,
                                          Get(conf, "dbname", "openemr"))]
                    /\ pc' = IF dry_run THEN "boot_refetch" ELSE "boot_a"
                [] b = "drift" ->
                    /\ UNCHANGED <<nextPw, loc>>
                    /\ pc' = "drift_put"
                [] b = "aging" ->
                    /\ UNCHANGED nextPw
                    /\ loc' = [loc EXCEPT !.new_active = loc.active, !.old_slot = loc.standby]
                    /\ pc' = "age_get"
                [] b = "normal" ->
                    /\ UNCHANGED <<nextPw, loc>>
                    /\ pc' = "std_upsert"

\* _upsert_openemr_db_user(slot) followed by validate_rds_connection(slot),
\* as one step of the caller: on success go to `next`.
UpsertAndValidate(slot, next) ==
    LET up == _upsert_openemr_db_user(accounts, secret_admin, secret_slots, slot)
    IN  \/ /\ UNCHANGED <<accounts, secret_admin, w>>
           /\ Return("failed", "fault:upsert")
        \/ /\ up.status = "ok"
           /\ accounts' = up.accounts
           /\ secret_admin' = up.admin
           /\ w' = Provisioned(up, slot)
           /\ IF validate_rds_connection(up.accounts, slot)
              THEN Goto(next) /\ UNCHANGED loc
              ELSE Return("failed", "OperationalError")
        \/ /\ up.status # "ok"
           /\ UNCHANGED accounts
           /\ secret_admin' = up.admin
           /\ Count("admin_puts", Flag(up.wrote))
           /\ Return("failed", up.status)

\* rotate.py 221-225: bootstrap provisions openemr_a, then openemr_b.
bootstrap_upsert_a ==
    /\ pc = "boot_a"
    /\ UNCHANGED <<secret_slots, sqlconf, k8s_secret, nextPw, cycles, dry_run, branch, pre>>
    /\ UpsertAndValidate(loc.slot_a, "boot_b")

bootstrap_upsert_b ==
    /\ pc = "boot_b"
    /\ UNCHANGED <<secret_slots, sqlconf, k8s_secret, nextPw, cycles, dry_run, branch, pre>>
    /\ UpsertAndValidate(loc.slot_b, "boot_put")

\* Faulty variant: the standby record is not replaced.
BootstrapPayload_active_only ==
    DictSet(DictSet(loc.rds_state, loc.active, loc.slot_a), "active_slot", loc.active)

\* rotate.py 226-231: the active label gets slot_a, the standby label slot_b.
BootstrapPayload ==
    DictSet(DictSet(DictSet(loc.rds_state, loc.active, loc.slot_a),
                    loc.standby, loc.slot_b), "active_slot", loc.active)

bootstrap_put ==
    /\ pc = "boot_put"
    /\ UNCHANGED <<secret_admin, accounts, sqlconf, k8s_secret, nextPw, cycles, dry_run, branch, pre>>
    /\ \/ /\ UNCHANGED <<secret_slots, w>>
          /\ Return("failed", "fault:put_payload")
       \/ /\ secret_slots' = BootstrapPayload
          /\ Count("slot_puts", 1)
          /\ Goto("boot_refetch")
          /\ UNCHANGED loc

\* rotate.py 72-76 and the test of line 84 after a bootstrap.
bootstrap_refetch ==
    /\ pc = "boot_refetch"
    /\ UNCHANGED <<ext, nextPw, cycles, dry_run, pre, w>>
    /\ \/ /\ UNCHANGED branch
          /\ Return("failed", "fault:get_secret")
       \/ /\ ~(slot_ok(secret_slots, loc.active) /\ slot_ok(secret_slots, loc.standby))
          /\ UNCHANGED branch
          /\ Return("failed", "ValueError")
       \/ /\ slot_ok(secret_slots, loc.active) /\ slot_ok(secret_slots, loc.standby)
          /\ IF loc.active = "B"
             THEN /\ branch' = "bootstrap_aging"
                  /\ loc' = [loc EXCEPT !.rds_state = secret_slots,
                                        !.new_active = loc.active, !.old_slot = loc.standby]
                  /\ Goto("age_get")
             ELSE /\ branch' = "bootstrap_normal"
                  /\ loc' = [loc EXCEPT !.rds_state = secret_slots]
                  /\ Goto("std_upsert")

\* rotate.py 240-244: _reconcile_active_slot_to_standby up to the call of
\* _rotate_old_slot(new_active=standby, old_slot=active).
_reconcile_active_slot_to_standby ==
    /\ pc = "drift_put"
    /\ UNCHANGED <<secret_admin, accounts, sqlconf, k8s_secret, nextPw, cycles, dry_run, branch, pre>>
    /\ \/ /\ ~dry_run
          /\ UNCHANGED <<secret_slots, w>>
          /\ Return("failed", "fault:put_payload")
       \/ /\ IF dry_run
             THEN UNCHANGED <<secret_slots, w>>
             ELSE /\ secret_slots' = DictSet(loc.rds_state, "active_slot", loc.standby)
                  /\ Count("slot_puts", 1)
          /\ loc' = [loc EXCEPT !.new_active = loc.standby, !.old_slot = loc.active]
          /\ Goto("age_get")

\* Faulty variant: the old slot keeps the password it had.
_rotate_old_slot_get_keeps_password ==
    /\ pc = "age_get"
    /\ UNCHANGED <<ext, cycles, dry_run, branch, pre, w>>
    /\ \/ /\ UNCHANGED nextPw
          /\ Return("failed", "fault:get_secret")
       \/ /\ ~(slot_ok(secret_slots, loc.new_active) /\ slot_ok(secret_slots, loc.old_slot))
          /\ UNCHANGED nextPw
          /\ Return("failed", "ValueError")
       \/ /\ slot_ok(secret_slots, loc.new_active) /\ slot_ok(secret_slots, loc.old_slot)
          /\ nextPw' = nextPw + 1
          /\ IF dry_run
             THEN Return("ok", "")
             ELSE /\ loc' = [loc EXCEPT !.age_state = secret_slots,
                        !.old_rds = SetDefault(secret_slots[loc.old_slot], "password", nextPw)]
                  /\ Goto("age_upsert")

\* rotate.py 131-143: _rotate_old_slot re-reads the store and draws the
\* old slot's new password; a dry run returns here.
_rotate_old_slot_get ==
    /\ pc = "age_get"
    /\ UNCHANGED <<ext, cycles, dry_run, branch, pre, w>>
    /\ \/ /\ UNCHANGED nextPw
          /\ Return("failed", "fault:get_secret")
       \/ /\ ~(slot_ok(secret_slots, loc.new_active) /\ slot_ok(secret_slots, loc.old_slot))
          /\ UNCHANGED nextPw
          /\ Return("failed", "ValueError")
       \/ /\ slot_ok(secret_slots, loc.new_active) /\ slot_ok(secret_slots, loc.old_slot)
          /\ nextPw' = nextPw + 1
          /\ IF dry_run
             THEN Return("ok", "")
             ELSE /\ loc' = [loc EXCEPT !.age_state = secret_slots,
                        !.old_rds = DictSet(secret_slots[loc.old_slot], "password", nextPw)]
                  /\ Goto("age_upsert")

\* rotate.py 138-140
_rotate_old_slot_upsert ==
    /\ pc = "age_upsert"
    /\ UNCHANGED <<secret_slots, sqlconf, k8s_secret, nextPw, cycles, dry_run, branch, pre>>
    /\ UpsertAndValidate(loc.old_rds, "age_put")

\* rotate.py 145-149
\* Faulty variant: the new password is not stored.
AgedPayload_old_password ==
    DictSet(DictSet(loc.age_state, loc.new_active, loc.age_state[loc.new_active]),
            "active_slot", loc.new_active)

AgedPayload ==
    DictSet(DictSet(DictSet(loc.age_state, loc.old_slot, loc.old_rds),
                    loc.new_active, loc.age_state[loc.new_active]),
            "active_slot", loc.new_active)

\* Faulty variant: the caller returns without rotating the admin password.
AfterOldSlot_return == Return("ok", "")

\* rotate.py 80-82, 86-88, 126-128: every caller of _rotate_old_slot goes on
\* to _rotate_admin_password (the dry-run returns are in _rotate_old_slot_upsert).
AfterOldSlot == Goto("adm_alter") /\ UNCHANGED loc

_rotate_old_slot_put ==
    /\ pc = "age_put"
    /\ UNCHANGED <<secret_admin, accounts, sqlconf, k8s_secret, nextPw, cycles, dry_run, branch, pre>>
    /\ \/ /\ UNCHANGED <<secret_slots, w>>
          /\ Return("failed", "fault:put_payload")
       \/ /\ secret_slots' = AgedPayload
          /\ Count("slot_puts", 1)
          /\ AfterOldSlot

\* Faulty variant: a failure of the standby provisioning enters _rollback.
rotate_prepare_rolls_back ==
    /\ pc = "std_upsert"
    /\ UNCHANGED <<secret_slots, sqlconf, k8s_secret, nextPw, cycles, dry_run, branch, pre>>
    /\ LET sb == loc.rds_state[loc.standby]
           up == _upsert_openemr_db_user(accounts, secret_admin, secret_slots, sb)
       IN  \/ /\ UNCHANGED <<accounts, secret_admin, w>>
              /\ loc' = [loc EXCEPT !.caught = "fault:upsert", !.original_sqlconf_content = sqlconf]
              /\ Goto("rb_write")
           \/ /\ up.status = "ok"
              /\ accounts' = up.accounts
              /\ secret_admin' = up.admin
              /\ w' = Provisioned(up, sb)
              /\ IF ~validate_rds_connection(up.accounts, sb)
                 THEN Return("failed", "OperationalError")
                 ELSE IF ~render_ok(sqlconf, sb)
                 THEN Return("failed", "ValueError")
                 ELSE IF dry_run
                 THEN Return("ok", "")
                 ELSE /\ loc' = [loc EXCEPT !.original_sqlconf_content = sqlconf,
                                            !.updated_sqlconf_content = render_sqlconf(sqlconf, sb)]
                      /\ Goto("cut_write")
           \/ /\ up.status # "ok"
              /\ UNCHANGED accounts
              /\ secret_admin' = up.admin
              /\ Count("admin_puts", Flag(up.wrote))
              /\ Return("failed", up.status)

\* ---------------------------------------------- normal rotation (90-128)
\* rotate.py 90-97: provision and validate the standby account, read and
\* render the config; a dry run returns after that.
rotate_prepare ==
    /\ pc = "std_upsert"
    /\ UNCHANGED <<secret_slots, sqlconf, k8s_secret, nextPw, cycles, dry_run, branch, pre>>
    /\ LET sb == loc.rds_state[loc.standby]
           up == _upsert_openemr_db_user(accounts, secret_admin, secret_slots, sb)
       IN  \/ /\ UNCHANGED <<accounts, secret_admin, w>>
              /\ Return("failed", "fault:upsert")
           \/ /\ up.status = "ok"
              /\ accounts' = up.accounts
              /\ secret_admin' = up.admin
              /\ w' = Provisioned(up, sb)
              /\ IF ~validate_rds_connection(up.accounts, sb)
                 THEN Return("failed", "OperationalError")
                 ELSE IF ~render_ok(sqlconf, sb)
                 THEN Return("failed", "ValueError")
                 ELSE IF dry_run
                 THEN Return("ok", "")
                 ELSE /\ loc' = [loc EXCEPT !.original_sqlconf_content = sqlconf,
                                            !.updated_sqlconf_content = render_sqlconf(sqlconf, sb)]
                      /\ Goto("cut_write")
           \/ /\ up.status # "ok"
              /\ UNCHANGED accounts
              /\ secret_admin' = up.admin
              /\ Count("admin_puts", Flag(up.wrote))
              /\ Return("failed", up.status)

\* Faulty variant: the except clause re-raises without calling _rollback.
Except_no_rollback(e) ==
    /\ loc' = [loc EXCEPT !.caught = e]
    /\ pc' = "idle"
    /\ result' = "failed"
    /\ err' = e

\* An exception inside the try block (rotate.py 100-124) enters _rollback.
Except(e) ==
    /\ loc' = [loc EXCEPT !.caught = e]
    /\ Goto("rb_write")

\* efs_editor.atomic_write: the rename either happened or it did not; the
\* chmod/chown after the rename can still raise.
atomic_write(content, onOk, onError) ==
    \/ /\ sqlconf' = content
       /\ Count("conf_writes", 1)
       /\ onOk
    \/ /\ UNCHANGED <<sqlconf, w>>
       /\ onError
    \/ /\ sqlconf' = content
       /\ Count("conf_writes", 1)
       /\ onError

\* k8s_refresh.rollout_restart_deployment: patch the annotation, then wait.
rollout_restart_deployment(onOk, onError) ==
    \/ /\ Count("restarts", 1)
       /\ onOk
    \/ /\ UNCHANGED w
       /\ onError
    \/ /\ Count("restarts", 1)
       /\ onError

\* rotate.py 101
cutover_write ==
    /\ pc = "cut_write"
    /\ UNCHANGED <<secret_slots, secret_admin, accounts, k8s_secret, nextPw, cycles, dry_run, branch, pre>>
    /\ atomic_write(loc.updated_sqlconf_content,
                    Goto("cut_mirror") /\ UNCHANGED loc,
                    Except("atomic_write"))

\* rotate.py 103-107
cutover_mirror ==
    /\ pc = "cut_mirror"
    /\ UNCHANGED <<secret_slots, secret_admin, accounts, sqlconf, nextPw, cycles, dry_run, branch, pre>>
    /\ \/ /\ k8s_secret' = update_k8s_db_secret(k8s_secret, loc.rds_state[loc.standby])
          /\ Count("k8s_patches", 1)
          /\ Goto("cut_restart")
          /\ UNCHANGED loc
       \/ /\ UNCHANGED <<k8s_secret, w>>
          /\ Except("update_k8s_db_secret")

\* rotate.py 109-112
cutover_restart ==
    /\ pc = "cut_restart"
    /\ UNCHANGED <<ext, nextPw, cycles, dry_run, branch, pre>>
    /\ rollout_restart_deployment(Goto("cut_validate") /\ UNCHANGED loc,
                                  Except("rollout_restart_deployment"))

\* rotate.py 173-175: validate_rds_connection, then the health probe.
\* `up` says whether the database answers, `outcome` what the probe meets.
_validate_runtime(accts, rds_slot, up, outcome) ==
    LET h == validate_openemr_health(outcome)
    IN  IF ~(up /\ validate_rds_connection(accts, rds_slot))
        THEN [db |-> "failed", probe |-> "none", raised |-> TRUE]
        ELSE [db |-> "ok", probe |-> IF h.warned THEN "warned" ELSE "quiet",
              raised |-> h.raised]

\* Faulty variant: the outcome of the validation is ignored.
cutover_validate_ignored ==
    /\ pc = "cut_validate"
    /\ UNCHANGED <<ext, nextPw, cycles, dry_run, branch, pre>>
    /\ \E up \in BOOLEAN, outcome \in ProbeOutcomes :
          LET v == _validate_runtime(accounts, loc.rds_state[loc.standby], up, outcome)
          IN  /\ w' = [w EXCEPT !.cut_db = v.db, !.probe = v.probe]
              /\ Goto("cut_persist") /\ UNCHANGED loc

\* rotate.py 114: _validate_runtime(standby_slot)
cutover_validate ==
    /\ pc = "cut_validate"
    /\ UNCHANGED <<ext, nextPw, cycles, dry_run, branch, pre>>
    /\ \E up \in BOOLEAN, outcome \in ProbeOutcomes :
          LET v == _validate_runtime(accounts, loc.rds_state[loc.standby], up, outcome)
          IN  /\ w' = [w EXCEPT !.cut_db = v.db, !.probe = v.probe]
              /\ IF v.raised
                 THEN Except("_validate_runtime")
                 ELSE Goto("cut_persist") /\ UNCHANGED loc

\* rotate.py 116-120, then the call of _rotate_old_slot (126).
cutover_persist ==
    /\ pc = "cut_persist"
    /\ UNCHANGED <<secret_admin, accounts, sqlconf, k8s_secret, nextPw, cycles, dry_run, branch, pre>>
    /\ \/ /\ secret_slots' = DictSet(loc.rds_state, "active_slot", loc.standby)
          /\ Count("slot_puts", 1)
          /\ loc' = [loc EXCEPT !.new_active = loc.standby, !.old_slot = loc.active]
          /\ Goto("age_get")
       \/ /\ UNCHANGED <<secret_slots, w>>
          /\ Except("put_payload")

\* ------------------------------------------------- _rollback (151-171)
\* Faulty variants: rollback called with the new content, with the standby
\* slot, and an except clause that swallows the error.
RollbackContent_updated == loc.updated_sqlconf_content

RollbackSlot_standby == loc.rds_state[loc.standby]

Reraise_swallowed == [result |-> "ok", err |-> ""]

\* rotate.py 123: the arguments of the call.
RollbackContent == loc.original_sqlconf_content

RollbackSlot == loc.rds_state[loc.active]

\* rotate.py 124: once _rollback returned, `raise` re-raises what was caught.
Reraise == [result |-> "failed", err |-> loc.caught]

\* A call made by _rollback has returned.
Done(call) == loc' = [loc EXCEPT !.rb_done = Append(@, call)]

_rollback_write ==
    /\ pc = "rb_write"
    /\ UNCHANGED <<secret_slots, secret_admin, accounts, k8s_secret, nextPw, cycles, dry_run, branch, pre>>
    /\ atomic_write(RollbackContent,
                    Goto("rb_mirror") /\ Done("atomic_write"),
                    Return("failed", "rollback:atomic_write"))

\* Faulty variant: the restart is left out.
_rollback_mirror_no_restart ==
    /\ pc = "rb_mirror"
    /\ UNCHANGED <<secret_slots, secret_admin, accounts, sqlconf, nextPw, cycles, dry_run, branch, pre>>
    /\ \/ /\ k8s_secret' = update_k8s_db_secret(k8s_secret, RollbackSlot)
          /\ Count("k8s_patches", 1)
          /\ Goto("rb_validate")
          /\ Done("update_k8s_db_secret")
       \/ /\ UNCHANGED <<k8s_secret, w>>
          /\ Return("failed", "rollback:update_k8s_db_secret")

_rollback_mirror ==
    /\ pc = "rb_mirror"
    /\ UNCHANGED <<secret_slots, secret_admin, accounts, sqlconf, nextPw, cycles, dry_run, branch, pre>>
    /\ \/ /\ k8s_secret' = update_k8s_db_secret(k8s_secret, RollbackSlot)
          /\ Count("k8s_patches", 1)
          /\ Goto("rb_restart")
          /\ Done("update_k8s_db_secret")
       \/ /\ UNCHANGED <<k8s_secret, w>>
          /\ Return("failed", "rollback:update_k8s_db_secret")

_rollback_restart ==
    /\ pc = "rb_restart"
    /\ UNCHANGED <<ext, nextPw, cycles, dry_run, branch, pre>>
    /\ rollout_restart_deployment(Goto("rb_validate") /\ Done("rollout_restart_deployment"),
                                  Return("failed", "rollback:rollout_restart_deployment"))

\* rotate.py 171, then `raise` (124) re-raises the exception of the cutover.
_rollback_validate ==
    /\ pc = "rb_validate"
    /\ UNCHANGED <<ext, nextPw, cycles, dry_run, branch, pre>>
    /\ \E up \in BOOLEAN, outcome \in ProbeOutcomes :
          LET v == _validate_runtime(accounts, RollbackSlot, up, outcome)
          IN  IF v.raised
              THEN /\ w' = [w EXCEPT !.rb_db = v.db, !.probe = v.probe]
                   /\ Return("failed", "rollback:_validate_runtime")
              ELSE /\ w' = [w EXCEPT !.rb_db = v.db, !.probe = v.probe,
                                     !.rollbacks = @ + 1]
                   /\ Return(Reraise.result, Reraise.err)

\* ------------------------------------------- sync_db_users (177-188)
\* Faulty variant: the --sync-db-users flag is ignored and rotate() runs.
sync_db_users_begin_rotates ==
    /\ pc = "idle"
    /\ cycles < MaxCycles
    /\ cycles' = cycles + 1
    /\ pre' = SnapshotOf("sync_db_users", pre.op)
    /\ w' = NoWrites
    /\ branch' = ""
    /\ dry_run' = FALSE
    /\ UNCHANGED <<ext, nextPw>>
    /\ active_slot_of(secret_slots) # "ValueError"
    /\ loc' = [NoLoc EXCEPT !.rds_state = secret_slots,
                            !.active = active_slot_of(secret_slots),
                            !.standby = standby_slot(active_slot_of(secret_slots))]
    /\ pc' = "load_admin"
    /\ result' = "running"
    /\ err' = ""

\* cli.py 47-50: the entry point always runs with dry_run = False.
sync_db_users_begin ==
    /\ pc = "idle"
    /\ cycles < MaxCycles
    /\ cycles' = cycles + 1
    /\ pre' = SnapshotOf("sync_db_users", pre.op)
    /\ w' = NoWrites
    /\ branch' = ""
    /\ dry_run' = FALSE
    /\ UNCHANGED <<ext, nextPw>>
    /\ \/ Abort("fault:get_secret")
       \/ /\ loc' = [NoLoc EXCEPT !.rds_state = secret_slots]
          /\ pc' = "su_A"
          /\ result' = "running"
          /\ err' = ""

\* rotate.py 181-188, one turn of the loop: a copy of the slot record gets
\* its defaults, the account is provisioned and a connection is opened.
sync_db_users_slot(slot_name) ==
    /\ pc = "su_" \o slot_name
    /\ UNCHANGED <<secret_slots, sqlconf, k8s_secret, cycles, dry_run, branch, pre>>
    /\ LET st == loc.rds_state
           other == IF slot_name = "B" THEN "A" ELSE "B"
       IN  IF ~(slot_ok(st, slot_name) /\ slot_ok(st, other))
           THEN /\ UNCHANGED <<accounts, secret_admin, w, nextPw>>
                /\ Return("failed", "ValueError")
           ELSE IF ~("host" \in DOMAIN st[other] /\ "dbname" \in DOMAIN st["A"])
           THEN /\ UNCHANGED <<accounts, secret_admin, w, nextPw>>
                /\ Return("failed", "KeyError")
           ELSE LET slot == _ensure_slot_initialized(st[slot_name], st[other]["host"],
                                                     st["A"]["dbname"], nextPw)
                    up == _upsert_openemr_db_user(accounts, secret_admin, secret_slots, slot)
                IN  /\ nextPw' = nextPw + Flag("password" \notin DOMAIN st[slot_name])
                    /\ \/ /\ UNCHANGED <<accounts, secret_admin, w>>
                          /\ Return("failed", "fault:upsert")
                       \/ /\ up.status = "ok"
                          /\ accounts' = up.accounts
                          /\ secret_admin' = up.admin
                          /\ w' = Provisioned(up, slot)
                          /\ IF ~validate_rds_connection(up.accounts, slot)
                             THEN Return("failed", "OperationalError")
                             ELSE IF slot_name = "A"
                             THEN Goto("su_B") /\ UNCHANGED loc
                             ELSE Return("ok", "")
                       \/ /\ up.status # "ok"
                          /\ UNCHANGED accounts
                          /\ secret_admin' = up.admin
                          /\ Count("admin_puts", Flag(up.wrote))
                          /\ Return("failed", up.status)

\* --------------------------------------- _rotate_admin_password (262-306)
\* Faulty variant: the new password is persisted before the ALTER USER.
_rotate_admin_password_alter_persists_first ==
    /\ pc = "adm_alter"
    /\ UNCHANGED <<secret_slots, sqlconf, k8s_secret, cycles, dry_run, branch, pre>>
    /\ LET la == _load_admin_secret(accounts, secret_admin, secret_slots)
       IN  \/ /\ UNCHANGED <<accounts, secret_admin, w, nextPw>>
              /\ Return("failed", "fault:load_admin")
           \/ /\ la.status = "ok"
              /\ secret_admin' = DictSet(la.admin, "password", nextPw)
              /\ accounts' = DictSet(accounts, la.admin["username"], nextPw)
              /\ nextPw' = nextPw + 1
              /\ w' = [w EXCEPT !.db_stmts = @ + 1, !.admin_alters = @ + 1,
                                !.admin_puts = @ + 1 + Flag(la.wrote)]
              /\ loc' = [loc EXCEPT !.new_password = nextPw]
              /\ Goto("adm_put")
           \/ /\ la.status # "ok"
              /\ UNCHANGED <<accounts, secret_admin, w, nextPw>>
              /\ Return("failed", la.status)

\* 270-294: load the admin secret (self-healing), ALTER USER to a new password;
\* the connection or the statement can fail once the secret was loaded.
_rotate_admin_password_alter ==
    /\ pc = "adm_alter"
    /\ UNCHANGED <<secret_slots, sqlconf, k8s_secret, cycles, dry_run, branch, pre>>
    /\ LET la == _load_admin_secret(accounts, secret_admin, secret_slots)
       IN  \/ /\ UNCHANGED <<accounts, secret_admin, w, nextPw>>
              /\ Return("failed", "fault:load_admin")
           \/ /\ la.status = "ok"
              /\ secret_admin' = la.admin
              /\ accounts' = DictSet(accounts, la.admin["username"], nextPw)
              /\ nextPw' = nextPw + 1
              /\ w' = [w EXCEPT !.db_stmts = @ + 1, !.admin_alters = @ + 1,
                                !.admin_puts = @ + Flag(la.wrote)]
              /\ loc' = [loc EXCEPT !.new_password = nextPw]
              /\ Goto("adm_put")
           \/ /\ la.status = "ok"
              /\ secret_admin' = la.admin
              /\ Count("admin_puts", Flag(la.wrote))
              /\ nextPw' = nextPw + 1
              /\ UNCHANGED accounts
              /\ Return("failed", "fault:alter")
           \/ /\ la.status # "ok"
              /\ UNCHANGED <<accounts, secret_admin, w, nextPw>>
              /\ Return("failed", la.status)

\* Faulty variant: the admin secret is written back as it was read.
RotatedAdmin_unchanged == secret_admin

\* rotate.py 305: admin["password"] = new_password
RotatedAdmin == DictSet(secret_admin, "password", loc.new_password)

\* 296-306: connect with the new password, then persist it.
_rotate_admin_password_put ==
    /\ pc = "adm_put"
    /\ UNCHANGED <<secret_slots, accounts, sqlconf, k8s_secret, nextPw, cycles, dry_run, branch, pre>>
    /\ \/ /\ AdminConnects(accounts, secret_admin, loc.new_password)
          /\ secret_admin' = RotatedAdmin
          /\ Count("admin_puts", 1)
          /\ Return("ok", "")
       \/ /\ UNCHANGED <<secret_admin, w>>
          /\ Return("failed", "fault:put_payload")

\* The process is killed between two steps.
Kill ==
    /\ pc # "idle"
    /\ UNCHANGED <<ext, nextPw, cycles, dry_run, branch, pre, w>>
    /\ Return("killed", "")

Next ==
    \/ rotate_begin
    \/ rotate_load_admin
    \/ rotate_read
    \/ \E name \in SlotNames : rotate_sync(name)
    \/ rotate_classify
    \/ bootstrap_upsert_a
    \/ bootstrap_upsert_b
    \/ bootstrap_put
    \/ bootstrap_refetch
    \/ _reconcile_active_slot_to_standby
    \/ _rotate_old_slot_get
    \/ _rotate_old_slot_upsert
    \/ _rotate_old_slot_put
    \/ rotate_prepare
    \/ cutover_write
    \/ cutover_mirror
    \/ cutover_restart
    \/ cutover_validate
    \/ cutover_persist
    \/ _rollback_write
    \/ _rollback_mirror
    \/ _rollback_restart
    \/ _rollback_validate
    \/ _rotate_admin_password_alter
    \/ _rotate_admin_password_put
    \/ sync_db_users_begin
    \/ \E slot_name \in SlotNames : sync_db_users_slot(slot_name)
    \/ Kill

Spec == Init /\ [][Next]_vars

\* Slot documents that SlotSecretState rejects: active_slot absent or not one
\* of "A", "B"; a slot record absent (or not a JSON object, which the model
\* does not tell apart from an absent one).
Corruptions(doc) ==
    {Without(doc, {"active_slot"}), DictSet(doc, "active_slot", "X"),
     DictSet(doc, "active_slot", "a"),
     Without(doc, {"A"}), Without(doc, {"B"}), Without(doc, {"A", "B"})}

\* A deployment in the steady state whose slot document was damaged.
InitCorrupt ==
    \E sh \in PlainShapes : \E doc \in Corruptions(InitSlots(sh)) :
        /\ sh.conf = "active" /\ sh.mirror = "conf" /\ ~sh.stale
        /\ InitWith(sh, doc)

SpecState == (Init \/ InitCorrupt) /\ [][Next]_vars

\* =====================================================================
\* Properties
\* =====================================================================
\* The five fields of a config file open a database connection.
ConfAuth(conf, accts) == validate_rds_connection(accts, parse_sqlconf(conf))

\* A call of rotate() has started (it may have ended, or been killed);
\* sync_db_users() is a different entry point.
InCall == result # "none" /\ pre.op = "rotate"

\* rotate() has returned to its caller, normally or by raising.
Returned == pc = "idle" /\ result \in {"ok", "failed"} /\ pre.op = "rotate"

\* The cluster Secret carries the slot's four mirrored values.
MirrorHolds(secret, slot) ==
    /\ Has(slot, {"host", "username", "password", "dbname"})
    /\ secret = update_k8s_db_secret(secret, slot)

PreActive == pre.secret_slots["active_slot"]

PreStandby == standby_slot(PreActive)

\* The config file as it was when the call started matches the stored slot.
PreMatches(name) ==
    _slot_matches_sqlconf(pre.secret_slots[name], parse_sqlconf(pre.sqlconf))

SteadyA == PreActive = "A" /\ PreMatches("A")

DriftPre == PreMatches(PreStandby) /\ ~PreMatches(PreActive)

\* The slot the store names active, the config file and the mirror agree.
Consistent ==
    LET s == secret_slots[secret_slots["active_slot"]]
    IN  /\ _slot_matches_sqlconf(s, parse_sqlconf(sqlconf))
        /\ MirrorHolds(k8s_secret, s)

RollbackErrors ==
    {"rollback:atomic_write", "rollback:update_k8s_db_secret",
     "rollback:rollout_restart_deployment", "rollback:_validate_runtime"}

\* C1: at every point of a non-dry-run cycle (between steps, during rollback,
\* after a kill) the live config file's five fields authenticate against the
\* database, provided they did when the cycle started.
C1_LiveConfigAuthenticates ==
    (InCall /\ ~dry_run /\ ConfAuth(pre.sqlconf, pre.accounts))
        => ConfAuth(sqlconf, accounts)

\* C2: whenever a non-dry-run rotate() returns successfully, whatever the
\* starting state, the slot named by active_slot, the config file's five
\* fields and the cluster mirror hold the same slot's credentials.
C2_SuccessIsConsistent ==
    (Returned /\ result = "ok" /\ ~dry_run) => Consistent

C4_RollbackRestores ==
    (Returned /\ ~dry_run /\ SteadyA /\ loc.caught # "" /\ w.rollbacks = 1)
        => /\ sqlconf = pre.sqlconf
           /\ MirrorHolds(k8s_secret, pre.secret_slots["A"])
           /\ secret_slots["active_slot"] = "A"

C4_Witness ==
    /\ Returned /\ ~dry_run /\ SteadyA
    /\ loc.caught = "update_k8s_db_secret" /\ w.rollbacks = 1
    /\ w.conf_writes = 2 /\ w.restarts = 1

\* C5 (as stated): whenever a non-dry-run cycle on the normal rotation path
\* reports failure, at whichever step, active_slot, the config file and the
\* cluster mirror are exactly as they were before the cycle.
C5_FailureLeavesAllAsBefore ==
    (Returned /\ result = "failed" /\ ~dry_run /\ branch = "normal")
        => /\ secret_slots["active_slot"] = PreActive
           /\ sqlconf = pre.sqlconf
           /\ k8s_secret = pre.k8s_secret

\* C5 (amended): when a non-dry-run cycle on the normal rotation path reports
\* a failure that occurred before the pointer persist succeeded, and every
\* step of the rollback it ran (if any) succeeded, active_slot and the config
\* file are as before the cycle, and the mirror is as before the cycle or,
\* after a rollback, re-patched with the pre-cycle active slot's values.
C5_FailureBeforePersistRestores ==
    (/\ Returned /\ result = "failed" /\ ~dry_run /\ branch = "normal"
     /\ w.slot_puts = 0
     /\ err \notin RollbackErrors)
        => /\ secret_slots = pre.secret_slots
           /\ sqlconf = pre.sqlconf
           /\ k8s_secret = IF w.rollbacks = 1
                           THEN update_k8s_db_secret(pre.k8s_secret,
                                                     pre.secret_slots[PreActive])
                           ELSE pre.k8s_secret

C5_Witness ==
    /\ Returned /\ result = "failed" /\ ~dry_run /\ branch = "normal"
    /\ w.slot_puts = 0 /\ w.rollbacks = 1
    /\ loc.caught = "_validate_runtime"
    /\ w.conf_writes = 2 /\ w.k8s_patches = 2 /\ w.restarts = 2

\* C6 (as stated): whenever a cutover step fails, rotate() reports the cycle
\* as failed and raises the failing cutover step's error, after the rollback
\* procedure has run.
C6_OriginalErrorRaised ==
    (Returned /\ loc.caught # "")
        => (result = "failed" /\ err = loc.caught /\ w.rollbacks = 1)

\* C6 (amended): whenever a cutover step fails, rotate() reports the cycle as
\* failed; the error raised is the failing cutover step's error when every
\* step of the rollback succeeded, and otherwise the error of the rollback
\* step that failed.
C6_OriginalErrorUnlessRollbackFails ==
    (Returned /\ loc.caught # "")
        => /\ result = "failed"
           /\ IF w.rollbacks = 1 THEN err = loc.caught ELSE err \in RollbackErrors

C6_Witness ==
    /\ Returned /\ loc.caught = "rollout_restart_deployment"
    /\ w.rollbacks = 1 /\ result = "failed" /\ err = "rollout_restart_deployment"

\* C7: a dry-run cycle writes neither the slot secret nor the admin secret
\* nor the config file, patches no mirror and triggers no restart.
C7_DryRunWritesNothing ==
    (InCall /\ dry_run)
        => /\ w.slot_puts = 0 /\ w.admin_puts = 0 /\ w.conf_writes = 0
           /\ w.k8s_patches = 0 /\ w.restarts = 0
           /\ secret_slots = pre.secret_slots /\ secret_admin = pre.secret_admin
           /\ sqlconf = pre.sqlconf /\ k8s_secret = pre.k8s_secret

\* C8: a dry-run cycle issues no CREATE USER, ALTER USER or GRANT statement
\* in any branch.
C8_DryRunIssuesNoStatement ==
    (InCall /\ dry_run) => (w.db_stmts = 0 /\ accounts = pre.accounts)

\* C9: when the config matches the standby slot and not the active slot (for
\* either active label), a successful non-dry-run cycle persists active_slot
\* = the former standby label and gives the former active slot a newly
\* generated password, different from its prior one, set in the database and
\* stored.
C9_DriftForward ==
    (Returned /\ result = "ok" /\ ~dry_run /\ DriftPre)
        => /\ secret_slots["active_slot"] = PreStandby
           /\ secret_slots[PreActive]["password"]
                  # Get(pre.secret_slots[PreActive], "password", 0)
           /\ secret_slots[PreActive]["password"] >= pre.nextPw
           /\ <<secret_slots[PreActive]["username"],
                secret_slots[PreActive]["password"]>> \in w.upserts

C9_Witness ==
    /\ Returned /\ result = "ok" /\ ~dry_run /\ DriftPre
    /\ PreActive = "B" /\ secret_slots["active_slot"] = "A"
    /\ w.slot_puts = 2

\* C10: in the drift-forward branch the cycle, whether it succeeds or fails,
\* never writes the config file, never patches the mirror and never triggers
\* a restart.
C10_DriftForwardFrame ==
    (InCall /\ DriftPre)
        => /\ w.conf_writes = 0 /\ w.k8s_patches = 0 /\ w.restarts = 0
           /\ sqlconf = pre.sqlconf /\ k8s_secret = pre.k8s_secret

C10_Witness ==
    /\ Returned /\ result = "failed" /\ ~dry_run /\ DriftPre
    /\ secret_slots["active_slot"] = PreStandby
    /\ w.db_stmts > 0

BootPre == ~PreMatches(PreActive) /\ ~PreMatches(PreStandby)

\* Both stored slot records are the dedicated accounts of a bootstrap, with
\* passwords generated during this call.
FreshSlotRecords ==
    /\ secret_slots[PreActive]["username"] \in {"openemr_a", "openemr_b"}
    /\ secret_slots[PreStandby]["username"] \in {"openemr_a", "openemr_b"}
    /\ secret_slots[PreActive]["username"] # secret_slots[PreStandby]["username"]
    /\ secret_slots[PreActive]["password"] >= pre.nextPw
    /\ secret_slots[PreStandby]["password"] >= pre.nextPw
    /\ secret_slots[PreActive]["password"] # secret_slots[PreStandby]["password"]

AgingPre == PreActive = "B" /\ PreMatches("B")

\* C12: when the config matches the active slot and active_slot = B, a
\* successful non-dry-run cycle only ages slot A (a new password for A is set
\* in the database and stored): active_slot stays B, slot B's record is kept,
\* and no config write, mirror patch or restart occurs.
C12_AgingOnly ==
    (Returned /\ result = "ok" /\ ~dry_run /\ AgingPre)
        => /\ secret_slots["active_slot"] = "B"
           /\ secret_slots["B"] = pre.secret_slots["B"]
           /\ secret_slots["A"]["password"] >= pre.nextPw
           /\ secret_slots["A"]["password"] # Get(pre.secret_slots["A"], "password", 0)
           /\ <<secret_slots["A"]["username"], secret_slots["A"]["password"]>> \in w.upserts
           /\ secret_slots["A"]["username"] # AdminUser
                => accounts[secret_slots["A"]["username"]] = secret_slots["A"]["password"]
           /\ w.conf_writes = 0 /\ w.k8s_patches = 0 /\ w.restarts = 0
           /\ sqlconf = pre.sqlconf /\ k8s_secret = pre.k8s_secret

C12_Witness ==
    /\ Returned /\ result = "ok" /\ ~dry_run /\ AgingPre
    /\ branch = "aging" /\ w.slot_puts = 1 /\ w.admin_alters = 1

\* Errors of the external services themselves (as opposed to errors the
\* stored state causes).
FaultErrors ==
    {"fault:get_secret", "fault:load_admin", "fault:put_payload", "fault:read_text",
     "fault:upsert", "fault:alter"}

\* Every external operation of the call succeeded.
NoFault == err \notin FaultErrors /\ loc.caught = ""

\* The call follows a non-dry-run call that was killed between two steps.
AfterKill == pre.result = "killed" /\ ~pre.dry_run /\ pre.prev_op = "rotate"

\* C13: after a non-dry-run cycle was killed at any point between two steps,
\* an uninterrupted non-dry-run invocation in which all external operations
\* succeed completes successfully.
C13_ResumableAfterKill ==
    (Returned /\ ~dry_run /\ AfterKill /\ NoFault) => result = "ok"

\* C14: every non-dry-run cycle that returns successfully, whichever branch
\* it took, has rotated the administrator password exactly once (one ALTER
\* USER by _rotate_admin_password, and the admin secret holds a password
\* generated in this cycle); a dry-run cycle never rotates it.
C14_AdminRotatedOncePerCycle ==
    /\ (Returned /\ result = "ok" /\ ~dry_run)
        => /\ w.admin_alters = 1
           /\ secret_admin["password"] >= pre.nextPw
           /\ w.admin_puts >= 1
    /\ (InCall /\ dry_run) => w.admin_alters = 0

C14_Witness ==
    /\ Returned /\ result = "ok" /\ ~dry_run /\ branch = "drift"
    /\ w.admin_alters = 1 /\ secret_admin["password"] >= pre.nextPw

\* The previous call altered the admin password in the database
\* (_rotate_admin_password, rotate.py 288-292) and ended, by a failure or a
\* kill, before persisting it (rotate.py 306).
AdminAlterUnpersisted ==
    /\ pre.prev_op = "rotate" /\ pre.admin_alters = 1
    /\ pre.result \in {"failed", "killed"}
    /\ ~AdminConnects(pre.accounts, pre.secret_admin, pre.secret_admin["password"])

\* C15: when the admin password was altered in the database but the admin
\* secret was not persisted (put failure or kill between the two), the next
\* cycle's self-healing finds a working administrator credential: the cycle
\* does not fail with the manual-intervention error.
C15_SelfHealAfterUnpersistedAlter ==
    (Returned /\ ~dry_run /\ AdminAlterUnpersisted) => err # "RuntimeError"

\* C16: when a non-dry-run cycle returns successfully, the password stored in
\* the admin secret differs from its pre-cycle value and authenticates as the
\* administrator account against the database.
C16_AdminSecretFreshAndValid ==
    (Returned /\ result = "ok" /\ ~dry_run)
        => /\ secret_admin["password"] # pre.secret_admin["password"]
           /\ secret_admin["username"] = pre.secret_admin["username"]
           /\ AdminConnects(accounts, secret_admin, secret_admin["password"])

C16_Witness ==
    /\ Returned /\ result = "ok" /\ ~dry_run /\ branch = "normal"
    /\ secret_admin["password"] # pre.secret_admin["password"]
    /\ accounts[AdminUser] = secret_admin["password"]

\* At the start of the call the stored admin password does not authenticate
\* and no slot carrying the admin username has a password that does.
AdminDead ==
    /\ ~AdminConnects(pre.accounts, pre.secret_admin, pre.secret_admin["password"])
    /\ \A n \in SlotNames :
          ~(/\ Has(pre.secret_slots[n], {"username", "password"})
            /\ pre.secret_slots[n]["username"] = pre.secret_admin["username"]
            /\ AdminConnects(pre.accounts, pre.secret_admin, pre.secret_slots[n]["password"]))

NothingWritten ==
    /\ secret_slots = pre.secret_slots /\ secret_admin = pre.secret_admin
    /\ accounts = pre.accounts /\ sqlconf = pre.sqlconf /\ k8s_secret = pre.k8s_secret
    /\ w = NoWrites

\* C17: when, at the start of a non-dry-run cycle, the stored admin password
\* does not authenticate and no slot password works for the admin account,
\* the cycle fails with the manual-intervention error (or with the error of
\* a secret-store read that failed first), and at no point of it is the
\* database, a secret, the config file or the cluster written.
C17_AdminExhaustionFailsBeforeWrites ==
    /\ (InCall /\ ~dry_run /\ AdminDead) => NothingWritten
    /\ (Returned /\ ~dry_run /\ AdminDead)
        => (result = "failed" /\ err \in {"RuntimeError"} \cup FaultErrors)

C17_Witness ==
    /\ Returned /\ ~dry_run /\ AdminDead
    /\ result = "failed" /\ err = "RuntimeError" /\ NothingWritten

\* C18: the health probe never raises, whatever it meets; a validation step
\* fails (and a cutover rolls back, or a rollback reports its own failure)
\* only when the database validation failed, so the probe's outcome changes
\* neither the cycle's result nor the final store, config and mirror.
C18_HealthProbeNeverFatal ==
    /\ \A o \in ProbeOutcomes : ~validate_openemr_health(o).raised
    /\ loc.caught = "_validate_runtime" => w.cut_db = "failed"
    /\ err = "rollback:_validate_runtime" => w.rb_db = "failed"
    /\ (w.cut_db = "ok" /\ pc \in {"rb_write", "rb_mirror", "rb_restart", "rb_validate"})
        => loc.caught \in {"put_payload"}

C18_Witness ==
    /\ Returned /\ result = "ok" /\ ~dry_run
    /\ w.cut_db = "ok" /\ w.probe = "warned" /\ w.rollbacks = 0
    /\ secret_slots["active_slot"] = "B" /\ Consistent

\* A call of sync_db_users() has started (it may have ended, or been killed).
InSync == result # "none" /\ pre.op = "sync_db_users"

\* C19: sync_db_users(), whether it succeeds or fails, never writes the slot
\* document (active_slot and both slot records unchanged), never writes the
\* config file, never patches the cluster mirror and triggers no restart.
C19_SyncDbUsersFrame ==
    InSync
        => /\ secret_slots = pre.secret_slots
           /\ sqlconf = pre.sqlconf
           /\ k8s_secret = pre.k8s_secret
           /\ w.slot_puts = 0 /\ w.conf_writes = 0 /\ w.k8s_patches = 0 /\ w.restarts = 0

C19_Witness ==
    /\ InSync /\ pc = "idle" /\ result = "ok"
    /\ w.db_stmts = 2 /\ accounts # pre.accounts
    /\ secret_slots = pre.secret_slots

RollbackOrder == <<"atomic_write", "update_k8s_db_secret", "rollout_restart_deployment">>

IsPrefix(s, t) == Len(s) <= Len(t) /\ \A i \in 1..Len(s) : s[i] = t[i]

\* C20: the rollback restores the original config content, then patches the
\* mirror to the pre-cutover active slot, then restarts, then validates the
\* active slot; each step starts only after the previous one has returned.
C20_RollbackOrder ==
    /\ IsPrefix(loc.rb_done, RollbackOrder)
    /\ pc = "rb_write" => loc.rb_done = <<>>
    /\ pc = "rb_mirror" => loc.rb_done = SubSeq(RollbackOrder, 1, 1)
    /\ pc = "rb_restart" => loc.rb_done = SubSeq(RollbackOrder, 1, 2)
    /\ pc = "rb_validate" => loc.rb_done = RollbackOrder
    /\ (w.rb_db # "none" \/ w.rollbacks = 1) => loc.rb_done = RollbackOrder
    /\ (InCall /\ Len(loc.rb_done) >= 1) => sqlconf = pre.sqlconf
    /\ (InCall /\ Len(loc.rb_done) >= 2)
        => MirrorHolds(k8s_secret, secret_slots[secret_slots["active_slot"]])
    /\ (InCall /\ Len(loc.rb_done) >= 3) => w.restarts >= 1

C20_Witness ==
    /\ Returned /\ result = "failed" /\ loc.caught = "rollout_restart_deployment"
    /\ loc.rb_done = RollbackOrder /\ w.rollbacks = 1 /\ w.rb_db = "ok"
    /\ sqlconf = pre.sqlconf /\ w.conf_writes = 2 /\ w.k8s_patches = 2

\* C21: in one non-dry-run cycle from the steady state (active A, config
\* matches A) exactly one rolling restart is triggered when the rotation
\* succeeds, and exactly one when the cutover fails at the cluster-mirror
\* update and the original error is reported: that one is issued by the
\* rollback, after it restored the config file and the mirror.
C21_OneRestartPerCycle ==
    /\ (Returned /\ ~dry_run /\ SteadyA /\ result = "ok") => w.restarts = 1
    /\ (Returned /\ ~dry_run /\ SteadyA /\ result = "failed"
            /\ err = "update_k8s_db_secret")
        => /\ w.restarts = 1
           /\ loc.rb_done = RollbackOrder
           /\ sqlconf = pre.sqlconf
    /\ (InCall /\ ~dry_run /\ SteadyA /\ pc \in {"cut_write", "cut_mirror", "cut_restart"})
        => w.restarts = 0
    /\ (InCall /\ ~dry_run /\ SteadyA /\ loc.caught = "update_k8s_db_secret"
            /\ w.restarts >= 1)
        => /\ w.restarts = 1
           /\ Len(loc.rb_done) >= 2

C21_Witness ==
    /\ Returned /\ ~dry_run /\ SteadyA /\ result = "failed"
    /\ err = "update_k8s_db_secret" /\ loc.caught = "update_k8s_db_secret"
    /\ w.restarts = 1 /\ w.k8s_patches = 1 /\ w.conf_writes = 2
    /\ loc.rb_done = RollbackOrder

\* =====================================================================
\* The pure functions, applied to inputs drawn from bounded sets
\* =====================================================================
\* A behaviour of SpecPure is one call: `loc` holds the function's name, its
\* arguments and what it returned; the variables of rotate() stay idle.
PureIdle ==
    /\ secret_slots = EmptyDict /\ secret_admin = EmptyDict /\ accounts = EmptyDict
    /\ sqlconf = EmptyDict /\ k8s_secret = EmptyDict
    /\ nextPw = FirstFreshPw /\ cycles = 0 /\ dry_run = FALSE
    /\ result = "none" /\ err = "" /\ branch = ""
    /\ w = NoWrites /\ pre = EmptyDict

PureFrame ==
    UNCHANGED <<secret_slots, secret_admin, accounts, sqlconf, k8s_secret, nextPw,
                cycles, dry_run, result, err, branch, w, pre>>

\* Labels handed to standby_slot: the two valid ones and some that are not.
Labels == {"A", "B", "C", "a", "b", "", "AB", "None"}

StandbyCalls == [fn : {"standby_slot"}, arg : Labels, out : {<<>>}]

\* standby_slot applied to the argument, then to what it returned.
apply_standby_slot ==
    /\ pc = "pure" /\ loc.fn = "standby_slot"
    /\ Len(loc.out) < 2
    /\ LET x == IF loc.out = <<>> THEN loc.arg ELSE loc.out[Len(loc.out)]
       IN  /\ x # "ValueError"
           /\ loc' = [loc EXCEPT !.out = Append(@, standby_slot(x))]
    /\ pc' = "pure"
    /\ PureFrame

\* ------------------------------------------- efs_editor.py on the text
\* A text is a sequence of characters. The PHP variable names ("$host", ...)
\* and the pieces of a file that no pattern looks into ("<?php", "//", "g<3>")
\* are kept as single symbols; a field value is a text too.
Quotes == {"'", "\""}

\* What \s matches.
Blank == {" ", "\n"}

\* The letters that are no escape in a replacement template.
Letters == {"x", "y", "h", "u", "d"}

VarToken(key) ==
    CASE key = "host" -> "$host"
      [] key = "port" -> "$port"
      [] key = "username" -> "$login"
      [] key = "password" -> "$pass"
      [] key = "dbname" -> "$dbase"

First(S) == CHOOSE x \in S : \A y \in S : x <= y

At(t, i) == IF i \in 1..Len(t) THEN t[i] ELSE "EOF"

\* The first position from i on that holds no blank (\s*).
SkipBlank(t, i) ==
    IF i > Len(t) THEN i
    ELSE First({j \in i..(Len(t) + 1) : At(t, j) \notin Blank})

\* The first position from i on that holds a quote: where [^'"]+ stops.
NextQuote(t, i) ==
    IF i > Len(t) THEN i
    ELSE First({j \in i..(Len(t) + 1) : j > Len(t) \/ t[j] \in Quotes})

\* ^\$var\s*=\s*['"]([^'"]+)['"]\s*; tried at position i (re.MULTILINE: ^ is
\* the start of the text or the position after a newline). Group 1 is
\* start..vs-1, the value vs..ve-1, group 3 ve..end.
MatchAt(t, v, i) ==
    LET eq == SkipBlank(t, i + 1)
        q1 == SkipBlank(t, eq + 1)
        vs == q1 + 1
        ve == NextQuote(t, vs)
        sc == SkipBlank(t, ve + 1)
    IN  [ok |-> /\ (i = 1 \/ At(t, i - 1) = "\n")
                /\ At(t, i) = v
                /\ At(t, eq) = "="
                /\ At(t, q1) \in Quotes
                /\ ve > vs
                /\ At(t, ve) \in Quotes
                /\ At(t, sc) = ";",
         start |-> i, vs |-> vs, ve |-> ve, end |-> sc]

\* re.search: the leftmost match.
Search(t, v) ==
    LET starts == {i \in 1..Len(t) : t[i] = v}
        hits == {i \in starts : MatchAt(t, v, i).ok}
    IN  IF hits = {} THEN [ok |-> FALSE, start |-> 0, vs |-> 0, ve |-> 0, end |-> 0]
        ELSE MatchAt(t, v, First(hits))

parse_sqlconf_text(content) ==
    [key \in {k \in SlotKeys : Search(content, VarToken(k)).ok} |->
        LET m == Search(content, VarToken(key))
        IN  SubSeq(content, m.vs, m.ve - 1)]

\* str() of a non-negative int.
RECURSIVE Str(_)
Str(n) ==
    LET d == <<"0", "1", "2", "3", "4", "5", "6", "7", "8", "9">>[(n % 10) + 1]
    IN  IF n < 10 THEN <<d>> ELSE Append(Str(n \div 10), d)

\* What re makes of the value inside the template \g<1>{value}\g<3>: a
\* backslash escapes the character after it. "\\" gives one backslash, a
\* backslash before a letter that is no escape raises re.error, before any
\* other character both stay; a backslash that ends the value takes the one
\* of \g<3>, which leaves the text g<3> instead of group 3.
RECURSIVE Expand(_)
Expand(value) ==
    IF value = <<>> THEN [ok |-> TRUE, text |-> <<>>, g3 |-> TRUE]
    ELSE IF Head(value) # "\\"
    THEN LET r == Expand(Tail(value))
         IN  [r EXCEPT !.text = <<Head(value)>> \o @]
    ELSE IF Len(value) = 1
    THEN [ok |-> TRUE, text |-> <<"\\", "g<3>">>, g3 |-> FALSE]
    ELSE LET c == value[2]
             r == Expand(SubSeq(value, 3, Len(value)))
         IN  CASE c = "\\" -> [r EXCEPT !.text = <<"\\">> \o @]
               [] c \in Letters -> [r EXCEPT !.ok = FALSE]
               [] OTHER -> [r EXCEPT !.text = <<"\\", c>> \o @]

\* Faulty variant: the count re.subn returns is not checked, an assignment
\* that is not found is skipped.
RenderStep_unchecked(acc, key, value) ==
    LET e == Expand(value)
        m == Search(acc.text, VarToken(key))
    IN  IF acc.status # "ok" \/ ~m.ok THEN acc
        ELSE IF ~e.ok THEN [status |-> "re.error", text |-> acc.text]
        ELSE [status |-> "ok",
              text |-> SubSeq(acc.text, 1, m.vs - 1) \o e.text
                       \o (IF e.g3 THEN SubSeq(acc.text, m.ve, m.end) ELSE <<>>)
                       \o SubSeq(acc.text, m.end + 1, Len(acc.text))]

\* One turn of the loop of render_sqlconf (lines 52-57): re.subn compiles the
\* template, replaces the first match, and the count is checked.
RenderStep(acc, key, value) ==
    LET e == Expand(value)
        m == Search(acc.text, VarToken(key))
    IN  IF acc.status # "ok" THEN acc
        ELSE IF ~e.ok THEN [status |-> "re.error", text |-> acc.text]
        ELSE IF ~m.ok THEN [status |-> "ValueError", text |-> acc.text]
        ELSE [status |-> "ok",
              text |-> SubSeq(acc.text, 1, m.vs - 1) \o e.text
                       \o (IF e.g3 THEN SubSeq(acc.text, m.ve, m.end) ELSE <<>>)
                       \o SubSeq(acc.text, m.end + 1, Len(acc.text))]

\* render_sqlconf: the value returned, or the exception raised (then no
\* content is returned).
render_sqlconf_text(content, slot) ==
    IF ~Has(slot, {"host", "username", "password", "dbname"})
    THEN [status |-> "KeyError", text |-> <<>>]
    ELSE LET port == IF "port" \in DOMAIN slot THEN Str(slot["port"]) ELSE <<"3", "3", "0", "6">>
             s1 == RenderStep([status |-> "ok", text |-> content], "host", slot["host"])
             s2 == RenderStep(s1, "port", port)
             s3 == RenderStep(s2, "username", slot["username"])
             s4 == RenderStep(s3, "password", slot["password"])
             s5 == RenderStep(s4, "dbname", slot["dbname"])
         IN  IF s5.status = "ok" THEN s5 ELSE [status |-> s5.status, text |-> <<>>]

\* ------------------------------------------------ inputs of the calls
\* Longest field value drawn for a slot.
MaxValueLen == 2

\* Characters of a drawn value: a letter, a quote and a backslash.
ValueChars == {"x", "'", "\\"}

RECURSIVE Texts(_, _)
Texts(chars, n) ==
    IF n = 0 THEN {<<>>}
    ELSE LET shorter == Texts(chars, n - 1)
         IN  shorter \cup {Append(t, c) : t \in {u \in shorter : Len(u) = n - 1}, c \in chars}

Values == Texts(ValueChars, MaxValueLen)

\* One assignment line of sqlconf.php.
Assign(v, sp, q, val) == <<v>> \o sp \o <<"=">> \o sp \o <<q>> \o val \o <<q, ";", "\n">>

Header == <<"<?php", "\n", "//", " ", "$host", " ", "=", " ", "'", "x", "'", ";", "\n">>

Footer == <<"$sqlconf", "=", "'", "x", "'", ";", "\n", "?>">>

FiveLines(sp, q) ==
    Assign("$host", sp, q, <<"h">>) \o Assign("$port", sp, q, <<"3", "3", "0", "6">>)
    \o Assign("$login", sp, q, <<"u">>) \o Assign("$pass", sp, q, <<"y">>)
    \o Assign("$dbase", sp, q, <<"d">>)

\* The file with one of the five assignments left out.
LinesWithout(key) ==
    (IF key = "host" THEN <<>> ELSE Assign("$host", <<" ">>, "'", <<"h">>))
    \o (IF key = "port" THEN <<>> ELSE Assign("$port", <<" ">>, "'", <<"3", "3", "0", "6">>))
    \o (IF key = "username" THEN <<>> ELSE Assign("$login", <<" ">>, "'", <<"u">>))
    \o (IF key = "password" THEN <<>> ELSE Assign("$pass", <<" ">>, "'", <<"y">>))
    \o (IF key = "dbname" THEN <<>> ELSE Assign("$dbase", <<" ">>, "'", <<"d">>))

\* Files that hold the five assignments: as OpenEMR writes them, with double
\* quotes and no blanks, spread over several lines, with a value that holds
\* blanks and a backslash, with a second assignment of $pass further down,
\* in another order.
CompleteContents ==
    { Header \o FiveLines(<<" ">>, "'") \o Footer,
      Header \o FiveLines(<<>>, "\"") \o Footer,
      FiveLines(<<"\n", " ">>, "'"),
      Header \o LinesWithout("password")
          \o <<"$pass", "=", "\"", "y", " ", "\\", "y", "'", " ", "\n", ";", "\n">> \o Footer,
      Header \o FiveLines(<<" ">>, "'") \o Assign("$pass", <<" ">>, "'", <<"y">>) \o Footer,
      Assign("$dbase", <<>>, "'", <<"d">>) \o LinesWithout("dbname") \o Footer }

\* Files in which one assignment cannot be found: it is absent, its value is
\* empty, it does not start its line, or its quote is never closed.
BrokenContents ==
    { Header \o LinesWithout(key) \o Footer : key \in SlotKeys }
    \cup { Header \o LinesWithout("password") \o Assign("$pass", <<" ">>, "'", <<>>) \o Footer,
           Header \o LinesWithout("host") \o Footer \o <<"\n", " ">> \o Assign("$host", <<>>, "'", <<"h">>),
           Header \o LinesWithout("dbname") \o <<"$dbase", "=", "'", "d", ";", "\n">>,
           <<>> }

Contents == CompleteContents \cup BrokenContents

\* Slot records as json.loads returns them: text values, an int port that
\* may be absent, and records that lack a field.
TextSlots ==
    { [username |-> u, password |-> p, host |-> <<"h", "x">>, port |-> po, dbname |-> <<"d", "x">>] :
          u \in {<<"u", "x">>, <<"'">>}, p \in Values, po \in {3306, 7} }
    \cup { [username |-> <<"u">>, password |-> p, host |-> h, dbname |-> <<"d">>] :
          p \in {<<"x">>, <<"\\", "x">>}, h \in {<<"h">>, <<"\\">>} }
    \cup { [username |-> <<"u">>, password |-> <<"x">>, port |-> 3306, dbname |-> <<"d">>],
           [username |-> <<"u">>, host |-> <<"h">>, port |-> 3306, dbname |-> <<"d">>] }

RenderCalls == [fn : {"render_sqlconf"}, content : Contents, slot : TextSlots, out : {<<>>}]

ParseCalls == [fn : {"parse_sqlconf"}, content : Contents, out : {<<>>}]

\* render_sqlconf(content, slot)
apply_render_sqlconf ==
    /\ pc = "pure" /\ loc.fn = "render_sqlconf"
    /\ loc.out = <<>>
    /\ loc' = [loc EXCEPT !.out = <<render_sqlconf_text(loc.content, loc.slot)>>]
    /\ pc' = "pure"
    /\ PureFrame

\* parse_sqlconf(content), or parse_sqlconf of what render_sqlconf returned.
apply_parse_sqlconf ==
    /\ pc = "pure"
    /\ \/ /\ loc.fn = "parse_sqlconf"
          /\ loc.out = <<>>
          /\ loc' = [loc EXCEPT !.out = <<parse_sqlconf_text(loc.content)>>]
       \/ /\ loc.fn = "render_sqlconf"
          /\ Len(loc.out) = 1
          /\ loc.out[1].status = "ok"
          /\ loc' = [loc EXCEPT !.out = Append(@, parse_sqlconf_text(loc.out[1].text))]
    /\ pc' = "pure"
    /\ PureFrame

\* Inputs of _load_admin_secret: the administrator's password in the
\* database, the stored admin secret, and a slot document whose records carry
\* the admin username or a dedicated one, a password that works or not, no
\* password at all, or are absent.
AdminCalls ==
    LET pws == {Pw0.admin, Pw0.stale}
        users == {AdminUser, "openemr_a"}
        recs == {Slot(u, p, DbHost, DbPort, DbName) : u \in users, p \in pws}
                  \cup {Without(Slot(u, Pw0.admin, DbHost, DbPort, DbName), {"password"}) :
                            u \in users}
        docs == {[active_slot |-> "A"]}
                  \cup {[active_slot |-> "A", A |-> a] : a \in recs}
                  \cup {[active_slot |-> "A", B |-> b] : b \in recs}
                  \cup {[active_slot |-> "A", A |-> a, B |-> b] : a \in recs, b \in recs}
    IN  [fn : {"_load_admin_secret"},
         accounts : {[u \in {AdminUser} |-> p] : p \in pws},
         admin : {[username |-> AdminUser, password |-> p, host |-> DbHost, port |-> DbPort] :
                    p \in pws},
         payload : docs, out : {<<>>}]

\* _load_admin_secret()
apply_load_admin_secret ==
    /\ pc = "pure" /\ loc.fn = "_load_admin_secret"
    /\ loc.out = <<>>
    /\ loc' = [loc EXCEPT !.out = <<_load_admin_secret(loc.accounts, loc.admin, loc.payload)>>]
    /\ pc' = "pure"
    /\ PureFrame

InitPure ==
    /\ pc = "pure"
    /\ loc \in StandbyCalls \cup RenderCalls \cup ParseCalls \cup AdminCalls
    /\ PureIdle

NextPure ==
    \/ apply_standby_slot
    \/ apply_render_sqlconf
    \/ apply_parse_sqlconf
    \/ apply_load_admin_secret

SpecPure == InitPure /\ [][NextPure]_vars

\* C22: standby_slot maps A to B and B to A: applied twice to a valid label
\* it gives the label back, its value is a valid label other than its
\* argument; for any other argument it raises ValueError.
C22_StandbyInvolution ==
    (pc = "pure" /\ loc.fn = "standby_slot" /\ Len(loc.out) >= 1)
        => IF loc.arg \in SlotNames
           THEN /\ loc.out[1] \in SlotNames
                /\ loc.out[1] # loc.arg
                /\ loc.out[1] = (IF loc.arg = "A" THEN "B" ELSE "A")
                /\ Len(loc.out) = 2 => loc.out[2] = loc.arg
           ELSE loc.out = <<"ValueError">>

C22_Witness ==
    /\ pc = "pure" /\ loc.fn = "standby_slot"
    /\ loc.arg = "B" /\ loc.out = <<"A", "B">>

\* The five field values of a slot as the config file holds them.
SlotText(slot) ==
    [k \in SlotKeys |-> IF k = "port" THEN Str(slot["port"]) ELSE slot[k]]

\* A call render_sqlconf(content, slot) with the five assignments present in
\* the content and the five fields present in the slot.
RenderOfComplete ==
    /\ pc = "pure" /\ loc.fn = "render_sqlconf"
    /\ DOMAIN parse_sqlconf_text(loc.content) = SlotKeys
    /\ Has(loc.slot, SlotKeys)

\* C23: for every content that holds the five managed assignments and every
\* slot, render_sqlconf returns a content and parse_sqlconf of that content
\* is exactly the slot's five field values (the port in its string form).
C23_RoundTrip ==
    RenderOfComplete
        => /\ Len(loc.out) >= 1 => loc.out[1].status = "ok"
           /\ Len(loc.out) = 2 => loc.out[2] = SlotText(loc.slot)

\* The round trip does hold for values of letters only.
C23_RoundTripPlainValues ==
    (RenderOfComplete /\ \A k \in SlotKeys \ {"port"} :
            loc.slot[k] # <<>> /\ \A i \in 1..Len(loc.slot[k]) : loc.slot[k][i] \in Letters)
        => /\ Len(loc.out) >= 1 => loc.out[1].status = "ok"
           /\ Len(loc.out) = 2 => loc.out[2] = SlotText(loc.slot)

\* The positions of `content` that lie inside the value of one of the five
\* managed assignments (the first match of each pattern).
ManagedPositions(content) ==
    UNION { LET m == Search(content, VarToken(k))
            IN  IF m.ok THEN m.vs..(m.ve - 1) ELSE {}
          : k \in SlotKeys }

\* `content` with every run of managed positions cut down to one mark.
RECURSIVE MarkedFrom(_, _, _)
MarkedFrom(content, managed, i) ==
    IF i > Len(content) THEN <<>>
    ELSE IF i \notin managed THEN <<content[i]>> \o MarkedFrom(content, managed, i + 1)
    ELSE IF (i - 1) \in managed THEN MarkedFrom(content, managed, i + 1)
    ELSE <<"VALUE">> \o MarkedFrom(content, managed, i + 1)

\* `text` is what `marked` becomes when each mark is replaced by some text.
RECURSIVE Fills(_, _)
Fills(text, marked) ==
    IF marked = <<>> THEN text = <<>>
    ELSE IF Head(marked) = "VALUE"
    THEN \E n \in 0..Len(text) : Fills(SubSeq(text, n + 1, Len(text)), Tail(marked))
    ELSE text # <<>> /\ Head(text) = Head(marked) /\ Fills(Tail(text), Tail(marked))

\* C24: the content render_sqlconf returns differs from its argument only
\* inside the values of the five managed assignments; every other character
\* (comments, blanks, quotes, other statements) is kept, for every slot.
C24_RenderFrame ==
    (RenderOfComplete /\ Len(loc.out) >= 1 /\ loc.out[1].status = "ok")
        => Fills(loc.out[1].text,
                 MarkedFrom(loc.content, ManagedPositions(loc.content), 1))

\* rotate() on a deployment, or one call of a pure function.
NextAll ==
    \/ pc # "pure" /\ Next
    \/ NextPure

SpecAll == (Init \/ InitPure) /\ [][NextAll]_vars

\* The config file the cycle found lacks one of the five assignments.
PreConfLacks == ~(SqlVars \subseteq DOMAIN pre.sqlconf)

\* C25: when one of the five managed assignments cannot be located in the
\* content, render_sqlconf raises and returns no content, rewritten in part
\* or not; a cycle of rotate() that meets such a config file writes no config
\* file, patches no mirror, restarts nothing and leaves active_slot as it
\* was, and if it gets as far as render_sqlconf it fails with ValueError.
C25_RenderFailsBeforeAnyWrite ==
    /\ (pc = "pure" /\ loc.fn = "render_sqlconf" /\ Len(loc.out) >= 1
            /\ DOMAIN parse_sqlconf_text(loc.content) # SlotKeys)
        => /\ loc.out[1].status \in {"ValueError", "KeyError", "re.error"}
           /\ loc.out[1].text = <<>>
    /\ (InCall /\ PreConfLacks)
        => /\ w.conf_writes = 0 /\ w.k8s_patches = 0 /\ w.restarts = 0
           /\ sqlconf = pre.sqlconf
           /\ k8s_secret = pre.k8s_secret
           /\ secret_slots["active_slot"] = PreActive
           /\ pc \notin {"cut_write", "cut_mirror", "cut_restart", "cut_validate",
                         "cut_persist", "rb_write", "rb_mirror", "rb_restart", "rb_validate"}
    /\ (Returned /\ PreConfLacks /\ branch \in {"normal", "bootstrap_normal"}
            /\ err \notin FaultErrors \cup {"OperationalError", "RuntimeError", "KeyError"})
        => (result = "failed" /\ err = "ValueError")

C25_Witness ==
    /\ Returned /\ PreConfLacks /\ ~dry_run
    /\ result = "failed" /\ err = "ValueError"
    /\ branch = "normal" /\ w.upserts # {}
    /\ w.conf_writes = 0 /\ w.k8s_patches = 0 /\ w.restarts = 0

C25_WitnessPure ==
    /\ pc = "pure" /\ loc.fn = "render_sqlconf"
    /\ "password" \notin DOMAIN parse_sqlconf_text(loc.content)
    /\ Len(loc.out) = 1 /\ loc.out[1].status = "ValueError"

\* =====================================================================
\* efs_editor.atomic_write and a concurrent reader of the path
\* =====================================================================
\* In SpecWrite the variable `sqlconf` holds the directory of the config
\* file: the inode each of the two names refers to (0: no such name) and the
\* content of every inode, a sequence of blocks. `loc` holds the arguments
\* and locals of atomic_write and the state of a reader (the application
\* opening the path and reading it block by block); `pc` is the position of
\* atomic_write.

\* Longest file, in blocks.
MaxBlocks == 2

FileOf(tag, n) == [i \in 1..n |-> <<tag, i>>]

WriteIdle ==
    /\ secret_slots = EmptyDict /\ secret_admin = EmptyDict /\ accounts = EmptyDict
    /\ k8s_secret = EmptyDict
    /\ nextPw = FirstFreshPw /\ cycles = 0 /\ dry_run = FALSE
    /\ result = "none" /\ err = "" /\ branch = ""
    /\ w = NoWrites /\ pre = EmptyDict

WriteFrame ==
    UNCHANGED <<secret_slots, secret_admin, accounts, k8s_secret, nextPw,
                cycles, dry_run, branch, w, pre>>

InitWrite ==
    /\ pc = "aw_parents"
    /\ \E m \in 1..MaxBlocks, n \in 1..MaxBlocks :
          /\ sqlconf = [path |-> 1, tmp |-> 0, files |-> <<FileOf("old", m)>>]
          /\ loc = [old |-> FileOf("old", m), content |-> FileOf("new", n),
                    tmp_fd |-> 0, rd_state |-> "closed", rd_fd |-> 0, rd_seen |-> <<>>]
    /\ WriteIdle

\* atomic_write raises: the `with` block closes the temporary file (it was
\* created with delete=False and stays in the directory).
Raise(e) ==
    /\ pc' = "aw_raised"
    /\ result' = "failed"
    /\ err' = e

\* efs_editor.py 76-83: mkdir and the chmod/chown of the parents, whose
\* OSError is passed over.
aw_parents ==
    /\ pc = "aw_parents"
    /\ UNCHANGED <<sqlconf, loc>>
    /\ \/ pc' = "aw_tmp" /\ UNCHANGED <<result, err>>
       \/ Raise("mkdir")
    /\ WriteFrame

\* Faulty variant: the path itself is opened for writing (and truncated)
\* instead of a temporary file beside it.
aw_create_tmp_in_place ==
    /\ pc = "aw_tmp"
    /\ \/ /\ sqlconf' = [sqlconf EXCEPT !.files[sqlconf.path] = <<>>]
          /\ loc' = [loc EXCEPT !.tmp_fd = sqlconf.path]
          /\ pc' = "aw_write"
          /\ UNCHANGED <<result, err>>
       \/ /\ UNCHANGED <<sqlconf, loc>>
          /\ Raise("NamedTemporaryFile")
    /\ WriteFrame

\* efs_editor.py 84-86: NamedTemporaryFile(dir=path.parent, delete=False)
\* creates an empty file under a new name in the same directory.
aw_create_tmp ==
    /\ pc = "aw_tmp"
    /\ \/ /\ sqlconf' = [sqlconf EXCEPT !.tmp = Len(sqlconf.files) + 1,
                                        !.files = Append(@, <<>>)]
          /\ loc' = [loc EXCEPT !.tmp_fd = Len(sqlconf.files) + 1]
          /\ pc' = "aw_write"
          /\ UNCHANGED <<result, err>>
       \/ /\ UNCHANGED <<sqlconf, loc>>
          /\ Raise("NamedTemporaryFile")
    /\ WriteFrame

\* efs_editor.py 87-88: tmp.write and tmp.flush hand the content to the
\* file block by block; a write can fail (disk full) with part of it written.
aw_write ==
    /\ pc = "aw_write"
    /\ LET done == Len(sqlconf.files[loc.tmp_fd])
       IN  \/ /\ done < Len(loc.content)
              /\ sqlconf' = [sqlconf EXCEPT !.files[loc.tmp_fd] = Append(@, loc.content[done + 1])]
              /\ UNCHANGED <<pc, result, err>>
           \/ /\ done = Len(loc.content)
              /\ pc' = "aw_fsync"
              /\ UNCHANGED <<sqlconf, result, err>>
           \/ /\ done < Len(loc.content)
              /\ UNCHANGED sqlconf
              /\ Raise("write")
    /\ UNCHANGED loc
    /\ WriteFrame

\* efs_editor.py 89-92: os.fsync, then os.fchmod and os.fchown on the open
\* temporary file; leaving the `with` block closes it.
aw_fsync ==
    /\ pc = "aw_fsync"
    /\ UNCHANGED <<sqlconf, loc>>
    /\ \/ pc' = "aw_replace" /\ UNCHANGED <<result, err>>
       \/ Raise("fsync")
       \/ Raise("fchown")
    /\ WriteFrame

\* efs_editor.py 94: os.replace(tmp_name, path) makes the path refer to the
\* temporary file's inode in one step; the old inode lives on for whoever
\* has it open.
aw_replace ==
    /\ pc = "aw_replace"
    /\ \/ /\ sqlconf' = [sqlconf EXCEPT !.path = IF sqlconf.tmp = 0 THEN @ ELSE sqlconf.tmp,
                                        !.tmp = 0]
          /\ pc' = "aw_chmod"
          /\ UNCHANGED <<result, err>>
       \/ /\ UNCHANGED sqlconf
          /\ Raise("replace")
    /\ UNCHANGED loc
    /\ WriteFrame

\* efs_editor.py 95-96: os.chmod and os.chown of the path.
aw_chmod ==
    /\ pc = "aw_chmod"
    /\ UNCHANGED <<sqlconf, loc>>
    /\ \/ pc' = "aw_returned" /\ result' = "ok" /\ UNCHANGED err
       \/ Raise("chown")
    /\ WriteFrame

\* efs_editor.read_text as the application does it: open the path ...
rd_open ==
    /\ loc.rd_state # "open"
    /\ loc' = [loc EXCEPT !.rd_state = "open", !.rd_fd = sqlconf.path, !.rd_seen = <<>>]
    /\ UNCHANGED <<sqlconf, pc, result, err>>
    /\ WriteFrame

\* ... and read the open file block by block up to its end.
rd_read ==
    /\ loc.rd_state = "open"
    /\ LET c == sqlconf.files[loc.rd_fd]
           k == Len(loc.rd_seen)
       IN  IF k < Len(c)
           THEN loc' = [loc EXCEPT !.rd_seen = Append(@, c[k + 1])]
           ELSE loc' = [loc EXCEPT !.rd_state = "done"]
    /\ UNCHANGED <<sqlconf, pc, result, err>>
    /\ WriteFrame

NextWrite ==
    \/ aw_parents
    \/ aw_create_tmp
    \/ aw_write
    \/ aw_fsync
    \/ aw_replace
    \/ aw_chmod
    \/ rd_open
    \/ rd_read

SpecWrite == InitWrite /\ [][NextWrite]_vars

\* C26: whatever a reader of the config path has read when it reaches the
\* end of the file, while atomic_write runs, after it returned or after it
\* failed at any step, is the complete previous content or the complete new
\* content; the path never names an empty or partly written file.
C26_ReaderSeesWholeFile ==
    /\ sqlconf.files[sqlconf.path] \in {loc.old, loc.content}
    /\ loc.rd_state = "done" => loc.rd_seen \in {loc.old, loc.content}
    /\ (loc.rd_state = "done" /\ result = "ok" /\ loc.rd_fd = sqlconf.path)
        => loc.rd_seen = loc.content
    /\ pc \in {"aw_parents", "aw_tmp", "aw_write", "aw_fsync", "aw_replace"}
        => sqlconf.files[sqlconf.path] = loc.old

\* A reader that opened the path before the rename reached the end of the
\* file after it, and read the old content whole.
C26_Witness ==
    /\ pc = "aw_chmod"
    /\ loc.rd_state = "done" /\ loc.rd_seen = loc.old
    /\ Len(loc.old) = 2 /\ loc.rd_fd # sqlconf.path
    /\ sqlconf.files[sqlconf.path] = loc.content

\* =====================================================================
\* k8s_refresh.rollout_restart_deployment and _wait_for_rollout
\* =====================================================================
\* In SpecRollout `loc` holds the arguments and locals of the call, the
\* monotonic clock (`now`, in seconds) and the Deployment the last poll
\* returned; `pc` is the position in the function.

\* Largest replica count a Deployment reports.
MaxPods == 2

\* Largest timeout_seconds passed.
MaxTimeout == 40

poll_interval == 15

\* Seconds a call of the Kubernetes API can take.
CallSeconds == {0, 7}

\* A field the API leaves unset (Python None).
NoneValue == 0 - 1

\* Python `x or d` on an optional int.
Or(x, d) == IF x = NoneValue \/ x = 0 THEN d ELSE x

Timeouts == {t \in 0..MaxTimeout : t % 10 = 0 \/ t = MaxTimeout}

\* What read_namespaced_deployment_status can return: the API leaves a
\* status count of zero unset, and a pod is available only if it is ready.
Deployments(replicas) ==
    {d \in [replicas : {replicas},
            updated_replicas : {NoneValue} \cup 1..MaxPods,
            ready_replicas : {NoneValue} \cup 1..MaxPods,
            available_replicas : {NoneValue} \cup 1..MaxPods,
            unavailable_replicas : {NoneValue, 1}] :
        d.available_replicas <= d.ready_replicas}

NoDeployment ==
    [replicas |-> NoneValue, updated_replicas |-> NoneValue, ready_replicas |-> NoneValue,
     available_replicas |-> NoneValue, unavailable_replicas |-> NoneValue]

InitRollout ==
    /\ pc = "ro_patch"
    /\ \E t \in Timeouts, r \in {NoneValue} \cup 0..MaxPods :
          loc = [timeout_seconds |-> t, replicas |-> r, now |-> 0, deadline |-> 0,
                 dep |-> NoDeployment, polled_at |-> NoneValue]
    /\ sqlconf = EmptyDict
    /\ WriteIdle

RolloutFrame ==
    UNCHANGED <<secret_slots, secret_admin, accounts, sqlconf, k8s_secret, nextPw,
                cycles, dry_run, branch, w, pre>>

\* k8s_refresh.py 71-92: the annotation patch that starts the restart.
ro_patch ==
    /\ pc = "ro_patch"
    /\ \E d \in CallSeconds :
          /\ loc' = [loc EXCEPT !.now = @ + d]
          /\ \/ pc' = "ro_deadline" /\ UNCHANGED <<result, err>>
             \/ pc' = "ro_raised" /\ result' = "failed" /\ err' = "ApiException"
    /\ RolloutFrame

\* k8s_refresh.py 105-106
ro_deadline ==
    /\ pc = "ro_deadline"
    /\ loc' = [loc EXCEPT !.deadline = loc.now + loc.timeout_seconds]
    /\ pc' = "ro_test"
    /\ UNCHANGED <<result, err>>
    /\ RolloutFrame

\* k8s_refresh.py 108 and 129: the loop condition; past the deadline the
\* function raises RuntimeError.
ro_test ==
    /\ pc = "ro_test"
    /\ IF loc.now < loc.deadline
       THEN pc' = "ro_poll" /\ UNCHANGED <<result, err>>
       ELSE pc' = "ro_raised" /\ result' = "failed" /\ err' = "RuntimeError"
    /\ UNCHANGED loc
    /\ RolloutFrame

\* k8s_refresh.py 118-122: the condition under which the wait returns.
Complete(dep) ==
    LET spec_replicas == Or(dep.replicas, 1)
        updated == Or(dep.updated_replicas, 0)
        ready == Or(dep.ready_replicas, 0)
        available == Or(dep.available_replicas, 0)
    IN  /\ updated >= spec_replicas /\ ready >= spec_replicas /\ available >= spec_replicas
        /\ Or(dep.unavailable_replicas, 0) = 0

\* k8s_refresh.py 109-124: one poll of the Deployment status.
ro_poll ==
    /\ pc = "ro_poll"
    /\ \E d \in CallSeconds :
          \/ /\ loc' = [loc EXCEPT !.now = @ + d]
             /\ pc' = "ro_raised" /\ result' = "failed" /\ err' = "ApiException"
          \/ \E dep \in Deployments(loc.replicas) :
                /\ loc' = [loc EXCEPT !.now = @ + d, !.dep = dep, !.polled_at = loc.now]
                /\ IF Complete(dep)
                   THEN pc' = "ro_returned" /\ result' = "ok" /\ UNCHANGED err
                   ELSE pc' = "ro_sleep" /\ UNCHANGED <<result, err>>
    /\ RolloutFrame

\* Faulty variant: the loop polls again without waiting.
ro_sleep_no_wait ==
    /\ pc = "ro_sleep"
    /\ UNCHANGED loc
    /\ pc' = "ro_poll"
    /\ UNCHANGED <<result, err>>
    /\ RolloutFrame

\* k8s_refresh.py 127: time.sleep(poll_interval)
ro_sleep ==
    /\ pc = "ro_sleep"
    /\ loc' = [loc EXCEPT !.now = @ + poll_interval]
    /\ pc' = "ro_test"
    /\ UNCHANGED <<result, err>>
    /\ RolloutFrame

NextRollout ==
    \/ ro_patch
    \/ ro_deadline
    \/ ro_test
    \/ ro_poll
    \/ ro_sleep

SpecRollout == InitRollout /\ [][NextRollout]_vars

\* The interpreter runs the function's steps one after the other, and every
\* API call and every sleep comes back.
SpecRolloutFair == SpecRollout /\ WF_vars(NextRollout)

\* The replica count the Deployment asks for (the API's default is 1).
Desired(dep) == IF dep.replicas = NoneValue THEN 1 ELSE dep.replicas

\* C27: rollout_restart_deployment returns normally only if a poll started
\* before the deadline reported updated, ready and available replicas all
\* equal to the desired replica count, with no unavailable replica.
C27_ReturnsOnlyWhenConverged ==
    (pc = "ro_returned")
        => /\ loc.polled_at # NoneValue /\ loc.polled_at < loc.deadline
           /\ Or(loc.dep.updated_replicas, 0) = Desired(loc.dep)
           /\ Or(loc.dep.ready_replicas, 0) = Desired(loc.dep)
           /\ Or(loc.dep.available_replicas, 0) = Desired(loc.dep)
           /\ Or(loc.dep.unavailable_replicas, 0) = 0

\* What does hold: the poll reported at least the desired count of each.
C27_ReturnsOnlyWhenAtLeastDesired ==
    (pc = "ro_returned")
        => /\ loc.polled_at # NoneValue /\ loc.polled_at < loc.deadline
           /\ Or(loc.dep.updated_replicas, 0) >= Desired(loc.dep)
           /\ Or(loc.dep.ready_replicas, 0) >= Desired(loc.dep)
           /\ Or(loc.dep.available_replicas, 0) >= Desired(loc.dep)
           /\ Or(loc.dep.unavailable_replicas, 0) = 0

Terminated == pc \in {"ro_returned", "ro_raised"}

\* C28: the rollout wait always terminates, for every desired replica count
\* and every timeout: it returns, an API call raises, or, when no poll taken
\* before the deadline reports a complete rollout, it raises RuntimeError, and
\* it does so only once the timeout has elapsed.
C28_RolloutWaitTerminates ==
    /\ <>Terminated
    /\ [](err = "RuntimeError" => (pc = "ro_raised" /\ loc.now >= loc.deadline
                                   /\ ~Complete(loc.dep)))
    /\ [](pc = "ro_poll" => loc.now < loc.deadline)

\* The timeout error after two polls that did not see a complete rollout.
C28_Witness ==
    /\ pc = "ro_raised" /\ err = "RuntimeError"
    /\ loc.timeout_seconds = 30 /\ loc.now >= 30
    /\ loc.polled_at >= poll_interval
    /\ loc.dep.replicas = 2 /\ loc.dep.ready_replicas = 1

\* =====================================================================
\* Properties of rotate(), continued
\* =====================================================================
\* The stored slot document is structurally complete.
Complete5 ==
    /\ Get(secret_slots, "active_slot", "None") \in SlotNames
    /\ \A name \in SlotNames :
          name \in DOMAIN secret_slots /\ Has(secret_slots[name], SlotKeys)

\* C29: after every successful non-dry-run cycle, in whichever branch, the
\* stored slot document has active_slot in {A, B} and both slot records hold
\* all five fields: the defaults _ensure_slot_initialized filled in memory
\* have reached the store.
C29_StoredSlotsComplete ==
    (Returned /\ result = "ok" /\ ~dry_run) => Complete5

\* The password a config file holds (0: it has no $pass assignment).
ConfPassword(conf) == Get(parse_sqlconf(conf), "password", 0)

StoredStandby == secret_slots[standby_slot(secret_slots["active_slot"])]

\* C30: after every successful non-dry-run cycle the password stored for the
\* standby slot, which the cycle set for the slot's database account, was
\* generated during that cycle and is none the live config file has held: a
\* slot that has just stopped being live does not keep the password it had.
C30_StandbyPasswordNeverLive ==
    (Returned /\ result = "ok" /\ ~dry_run)
        => /\ "password" \in DOMAIN StoredStandby
           /\ StoredStandby["password"] >= pre.nextPw
           /\ StoredStandby["password"] # ConfPassword(sqlconf)
           /\ StoredStandby["password"] # ConfPassword(pre.sqlconf)
           /\ <<StoredStandby["username"], StoredStandby["password"]>> \in w.upserts
           /\ StoredStandby["username"] # AdminUser
                => Get(accounts, StoredStandby["username"], 0) = StoredStandby["password"]

\* A cutover from A to B: slot A's password was in the live config file
\* when the cycle started and has been replaced.
C30_Witness ==
    /\ Returned /\ result = "ok" /\ ~dry_run /\ SteadyA
    /\ secret_slots["active_slot"] = "B"
    /\ pre.secret_slots["A"]["password"] = ConfPassword(pre.sqlconf)
    /\ secret_slots["A"]["password"] # pre.secret_slots["A"]["password"]
    /\ accounts[secret_slots["A"]["username"]] = secret_slots["A"]["password"]

\* The credentials an instance reads from the cluster Secret (the port is
\* not mirrored: the instance keeps the one of its config file).
MirrorSlot(secret, conf) ==
    Slot(secret["mysql-user"], secret["mysql-password"], secret["mysql-host"],
         Get(parse_sqlconf(conf), "port", "3306"), secret["mysql-database"])

\* The cycle ran to its end: it returned normally, or it failed inside the
\* cutover and every step of the rollback succeeded.
Completed == Returned /\ ~dry_run /\ (result = "ok" \/ w.rollbacks = 1)

\* C31: after every completed non-dry-run cycle (successful, or failed and
\* rolled back), including one that recovers from an interrupted cycle, the
\* cluster mirror holds the credentials of the slot the config file
\* references, and they authenticate against the database.
C31_MirrorFollowsConfig ==
    Completed
        => /\ MirrorHolds(k8s_secret, parse_sqlconf(sqlconf))
           /\ validate_rds_connection(accounts, MirrorSlot(k8s_secret, sqlconf))

\* The call follows a non-dry-run rotate() that returned successfully.
AfterSuccess == pre.result = "ok" /\ ~pre.dry_run /\ pre.prev_op = "rotate"

\* C32: across consecutive successful non-dry-run cycles from the steady
\* state (the config matches the active slot), the slot that is standby
\* after one cycle is the one the next cycle makes active: active_slot
\* alternates A, B, A, ...
C32_ActiveAlternates ==
    (Returned /\ result = "ok" /\ ~dry_run /\ AfterSuccess /\ PreMatches(PreActive))
        => secret_slots["active_slot"] = PreStandby

\* The call is on the normal-rotation path and no step has raised so far.
Forward == InCall /\ ~dry_run /\ branch = "normal" /\ loc.caught = ""

CutoverSteps == {"cut_write", "cut_mirror", "cut_restart", "cut_validate", "cut_persist"}

\* C33: in the normal-rotation branch the steps occur in the order
\* provision standby, validate standby, write the config, patch the mirror,
\* restart, validate the live connection, persist active_slot = standby: each
\* step has happened exactly once before the next one does, the config is
\* written only once the standby credential opens a connection, and
\* active_slot changes only after the post-restart validation succeeded.
C33_CutoverOrder ==
    /\ (Forward /\ pc \in CutoverSteps)
        => LET sb == loc.rds_state[loc.standby]
           IN  /\ <<sb["username"], sb["password"]>> \in w.upserts
               /\ validate_rds_connection(accounts, sb)
    /\ (Forward /\ w.conf_writes >= 1) => w.db_stmts >= 3
    /\ (Forward /\ w.k8s_patches >= 1) => w.conf_writes = 1
    /\ (Forward /\ w.restarts >= 1) => w.k8s_patches = 1
    /\ (Forward /\ w.cut_db # "none") => w.restarts = 1
    /\ (Forward /\ w.slot_puts >= 1) => w.cut_db = "ok"
    /\ (Forward /\ pc \in CutoverSteps \ {"cut_write"})
        => sqlconf = loc.updated_sqlconf_content
    /\ (InCall /\ ~dry_run /\ branch = "normal" /\ secret_slots["active_slot"] # PreActive)
        => /\ w.cut_db = "ok"
           /\ w.conf_writes >= 1 /\ w.k8s_patches >= 1 /\ w.restarts >= 1
           /\ secret_slots["active_slot"] = PreStandby

C33_Witness ==
    /\ Returned /\ result = "ok" /\ ~dry_run /\ branch = "normal" /\ loc.caught = ""
    /\ w.db_stmts >= 3 /\ w.conf_writes = 1 /\ w.k8s_patches = 1 /\ w.restarts = 1
    /\ w.cut_db = "ok" /\ w.slot_puts = 2
    /\ secret_slots["active_slot"] = PreStandby

\* What the self-healing of _load_admin_secret makes of the admin secret.
Healed == _load_admin_secret(accounts, secret_admin, secret_slots).admin

\* C34: the admin secret is only ever overwritten with a password that has
\* just opened a connection as the administrator, and nothing but its
\* password changes; the rotation persists only after the ALTER USER and
\* with the password the database then holds; a rotation that fails at the
\* alter or at the verification leaves the secret as it was loaded, without
\* the new password.
C34_AdminSecretVerifiedBeforeWrite ==
    [][/\ secret_admin' # secret_admin
            => /\ AdminConnects(accounts, secret_admin', secret_admin'["password"])
               /\ Without(secret_admin', {"password"}) = Without(secret_admin, {"password"})
               /\ \/ secret_admin' = Healed
                  \/ /\ pc = "adm_put"
                     /\ w.admin_alters = 1
                     /\ secret_admin'["password"] = loc.new_password
                     /\ accounts[secret_admin["username"]] = loc.new_password
       /\ (pc = "adm_alter" /\ result' = "failed")
            => /\ secret_admin' \in {secret_admin, Healed}
               /\ secret_admin'["password"] # nextPw
       /\ (pc = "adm_put" /\ result' = "failed") => secret_admin' = secret_admin
      ]_vars

\* The rotation altered, verified and persisted a password after the
\* self-healing had adopted a slot's password in the same cycle.
C34_Witness ==
    /\ Returned /\ result = "ok" /\ ~dry_run
    /\ w.admin_alters = 1 /\ w.admin_puts >= 2
    /\ secret_admin["password"] >= pre.nextPw
    /\ AdminConnects(accounts, secret_admin, secret_admin["password"])

\* Slot `n` of the call's slot document carries the admin username and a
\* password that opens a connection as the administrator.
Adoptable(n) ==
    /\ n \in DOMAIN loc.payload
    /\ Has(loc.payload[n], {"username", "password"})
    /\ loc.payload[n]["username"] = loc.admin["username"]
    /\ AdminConnects(loc.accounts, loc.admin, loc.payload[n]["password"])

\* Examining slot `n` raises: it is no record, or it carries the admin
\* username without a password.
Malformed(n) ==
    \/ n \notin DOMAIN loc.payload
    \/ /\ Get(loc.payload[n], "username", "None") = loc.admin["username"]
       /\ "password" \notin DOMAIN loc.payload[n]

\* C35: self-healing writes nothing when the stored administrator password
\* authenticates; when it does not, it adopts and persists a slot's password
\* only if that slot carries the admin username and its password opens a
\* connection, and slot A is examined before slot B: an adoptable slot A is
\* taken whatever slot B holds, and slot B is taken only once slot A was
\* examined and passed over.
C35_SelfHealing ==
    (pc = "pure" /\ loc.fn = "_load_admin_secret" /\ Len(loc.out) = 1)
        => LET r == loc.out[1]
               stored == AdminConnects(loc.accounts, loc.admin, loc.admin["password"])
               adopted(n) == /\ r.status = "ok" /\ r.wrote
                             /\ r.admin = [loc.admin EXCEPT !["password"] =
                                                loc.payload[n]["password"]]
           IN  /\ stored => (r.status = "ok" /\ ~r.wrote /\ r.admin = loc.admin)
               /\ r.wrote => /\ ~stored
                             /\ \E n \in SlotNames : Adoptable(n) /\ adopted(n)
               /\ (~stored /\ Adoptable("A")) => adopted("A")
               /\ (~stored /\ ~Adoptable("A") /\ ~Malformed("A") /\ Adoptable("B"))
                    => adopted("B")
               /\ (~stored /\ Malformed("A")) => (r.status # "ok" /\ ~r.wrote)
               /\ ~r.wrote => r.admin = loc.admin
               /\ (r.status = "ok") = (stored \/ r.wrote)

\* Slot A is adopted although examining slot B would raise.
C35_Witness ==
    /\ pc = "pure" /\ loc.fn = "_load_admin_secret" /\ Len(loc.out) = 1
    /\ ~AdminConnects(loc.accounts, loc.admin, loc.admin["password"])
    /\ Adoptable("A") /\ Malformed("B")
    /\ loc.out[1].wrote /\ loc.out[1].admin["password"] = loc.payload["A"]["password"]

\* The slot document the call found is one SlotSecretState rejects.
StateErrorPre ==
    \/ Get(pre.secret_slots, "active_slot", "None") \notin SlotNames
    \/ \E n \in SlotNames : n \notin DOMAIN pre.secret_slots

\* C36: when the slot document's active_slot is missing or not A or B, or a
\* slot record is missing, rotate() fails (with the ValueError of the slot
\* document, or the error of a read that failed before) and at no point
\* writes the slot store, the config file, the cluster or a database
\* account: no label and no slot is made up.
C36_StateErrorsAreFatal ==
    /\ (InCall /\ StateErrorPre)
        => /\ secret_slots = pre.secret_slots /\ sqlconf = pre.sqlconf
           /\ k8s_secret = pre.k8s_secret /\ accounts = pre.accounts
           /\ w.slot_puts = 0 /\ w.conf_writes = 0 /\ w.k8s_patches = 0
           /\ w.restarts = 0 /\ w.db_stmts = 0 /\ w.upserts = {}
           /\ result # "ok"
    /\ (Returned /\ StateErrorPre)
        => (result = "failed" /\ err \in {"ValueError"} \cup FaultErrors)

C36_Witness ==
    /\ Returned /\ ~dry_run /\ result = "failed" /\ err = "ValueError"
    /\ "A" \in DOMAIN pre.secret_slots /\ "B" \notin DOMAIN pre.secret_slots
    /\ pre.secret_slots["active_slot"] = "A"
    /\ secret_slots = pre.secret_slots /\ w.db_stmts = 0

C36_WitnessLabel ==
    /\ Returned /\ ~dry_run /\ result = "failed" /\ err = "ValueError"
    /\ Get(pre.secret_slots, "active_slot", "None") = "X"
    /\ secret_slots = pre.secret_slots /\ w.db_stmts = 0

\* The steps that provision or validate a slot's account before the cutover
\* (rotate.py 57-60, 221-225, 90-91) and the positions they go on to.
ProvisioningSteps == {"sync_A", "sync_B", "boot_a", "boot_b", "std_upsert"}

ProvisioningNext == {"sync_B", "classify", "boot_b", "boot_put", "cut_write"}

\* C37: when provisioning or validating a slot's account fails before the
\* cutover (the pre-classification provisioning of both slots, the bootstrap
\* provisioning, the standby provisioning and validation), the cycle fails
\* at that step: the rollback procedure is not entered, and the call has
\* written no config file, patched no mirror, triggered no restart and left
\* active_slot as it was.
C37_ProvisioningFailureAborts ==
    [][(/\ pc \in ProvisioningSteps
        /\ pc' \notin ProvisioningNext
        /\ result' \notin {"ok", "killed"})
          => /\ pc' = "idle" /\ result' = "failed"
             /\ loc'.caught = "" /\ loc'.rb_done = <<>>
             /\ w'.rollbacks = 0 /\ w'.rb_db = "none"
             /\ w'.conf_writes = 0 /\ w'.k8s_patches = 0 /\ w'.restarts = 0
             /\ sqlconf' = pre.sqlconf /\ k8s_secret' = pre.k8s_secret
             /\ secret_slots'["active_slot"] = PreActive
      ]_vars

\* The standby provisioning failed after both slots had been provisioned.
C37_Witness ==
    /\ Returned /\ ~dry_run /\ result = "failed" /\ err = "fault:upsert"
    /\ branch = "normal" /\ w.db_stmts = 2 /\ w.slot_puts = 0
    /\ w.conf_writes = 0 /\ w.k8s_patches = 0 /\ w.restarts = 0 /\ w.rollbacks = 0
    /\ secret_slots["active_slot"] = PreActive

\* The database account of stored slot `n` accepts the stored password.
StoredSlotConnects(n) ==
    /\ Has(secret_slots[n], {"username", "password"})
    /\ secret_slots[n]["username"] \in DOMAIN accounts
    /\ accounts[secret_slots[n]["username"]] = secret_slots[n]["password"]

\* C38: after sync_db_users() returns successfully, for each of slots A and
\* B the database account named by the slot's stored username accepts the
\* password stored for that slot.
C38_SyncRepairsDrift ==
    (InSync /\ pc = "idle" /\ result = "ok")
        => \A n \in SlotNames : StoredSlotConnects(n)

\* =====================================================================
\* rollout_restart_deployment next to the Deployment controller
\* =====================================================================
\* In SpecCluster `k8s_secret` holds the Deployment object of the cluster:
\* metadata.generation, status.observedGeneration, spec.replicas, the running
\* pods (`old`: ready pods of the template before the annotation, `fresh`:
\* ready pods of the annotated template, `starting`: pods of the annotated
\* template not yet ready) and the status counts the controller last wrote.
\* `loc` and `pc` are those of SpecRollout.
ClusterIdle ==
    /\ secret_slots = EmptyDict /\ secret_admin = EmptyDict /\ accounts = EmptyDict
    /\ sqlconf = EmptyDict
    /\ nextPw = FirstFreshPw /\ cycles = 0 /\ dry_run = FALSE
    /\ result = "none" /\ err = "" /\ branch = ""
    /\ w = NoWrites /\ pre = EmptyDict

ClusterFrame ==
    UNCHANGED <<secret_slots, secret_admin, accounts, sqlconf, nextPw,
                cycles, dry_run, branch, w, pre>>

\* The status counts of a Deployment whose controller has seen its pods:
\* pods of the current template, ready pods, available pods, and the pods
\* that exist without being available.
StatusOf(c) ==
    [updated_replicas |-> c.fresh + c.starting,
     ready_replicas |-> c.old + c.fresh,
     available_replicas |-> c.old + c.fresh,
     unavailable_replicas |-> c.starting]

\* A Deployment at rest: every pod is ready and of the current template.
InitCluster ==
    /\ pc = "ro_patch"
    /\ \E t \in Timeouts, n \in 1..MaxPods :
          /\ loc = [timeout_seconds |-> t, replicas |-> n, now |-> 0, deadline |-> 0,
                    dep |-> NoDeployment, polled_at |-> NoneValue]
          /\ k8s_secret = [generation |-> 1, observedGeneration |-> 1, replicas |-> n,
                           old |-> n, fresh |-> 0, starting |-> 0,
                           status |-> [updated_replicas |-> n, ready_replicas |-> n,
                                       available_replicas |-> n,
                                       unavailable_replicas |-> 0]]
    /\ ClusterIdle

\* k8s_refresh.py 71-92: the patch changes the pod template, so the API
\* server increments metadata.generation; the status stays as it was.
patch_namespaced_deployment ==
    /\ pc = "ro_patch"
    /\ \E d \in CallSeconds :
          /\ loc' = [loc EXCEPT !.now = @ + d]
          /\ \/ /\ k8s_secret' = [k8s_secret EXCEPT !.generation = @ + 1]
                /\ pc' = "ro_deadline" /\ UNCHANGED <<result, err>>
             \/ /\ UNCHANGED k8s_secret
                /\ pc' = "ro_raised" /\ result' = "failed" /\ err' = "ApiException"
    /\ ClusterFrame

\* k8s_refresh.py 109-124: the poll reads spec.replicas and the status the
\* controller last wrote (the API leaves a count of zero unset).
read_namespaced_deployment_status ==
    /\ pc = "ro_poll"
    /\ \E d \in CallSeconds :
          \/ /\ loc' = [loc EXCEPT !.now = @ + d]
             /\ pc' = "ro_raised" /\ result' = "failed" /\ err' = "ApiException"
          \/ LET unset(n) == IF n = 0 THEN NoneValue ELSE n
                 st == k8s_secret.status
                 dep == [replicas |-> k8s_secret.replicas,
                         updated_replicas |-> unset(st.updated_replicas),
                         ready_replicas |-> unset(st.ready_replicas),
                         available_replicas |-> unset(st.available_replicas),
                         unavailable_replicas |-> unset(st.unavailable_replicas)]
             IN  /\ loc' = [loc EXCEPT !.now = @ + d, !.dep = dep, !.polled_at = loc.now]
                 /\ IF Complete(dep)
                    THEN pc' = "ro_returned" /\ result' = "ok" /\ UNCHANGED err
                    ELSE pc' = "ro_sleep" /\ UNCHANGED <<result, err>>
    /\ UNCHANGED k8s_secret
    /\ ClusterFrame

\* The Deployment controller, running on its own: it notices the new
\* generation, then replaces the pods one at a time (one surge pod, no pod
\* taken away before its replacement is ready), writing the status each time.
deployment_controller ==
    /\ \/ /\ k8s_secret.observedGeneration < k8s_secret.generation
          /\ k8s_secret' = [k8s_secret EXCEPT !.observedGeneration = k8s_secret.generation,
                                               !.status = StatusOf(k8s_secret)]
       \/ /\ k8s_secret.observedGeneration = k8s_secret.generation
          /\ k8s_secret.generation > 1
          /\ k8s_secret.fresh + k8s_secret.starting < k8s_secret.replicas
          /\ k8s_secret.old + k8s_secret.fresh + k8s_secret.starting <= k8s_secret.replicas
          /\ LET c == [k8s_secret EXCEPT !.starting = @ + 1]
             IN  k8s_secret' = [c EXCEPT !.status = StatusOf(c)]
       \/ /\ k8s_secret.observedGeneration = k8s_secret.generation
          /\ k8s_secret.generation > 1
          /\ k8s_secret.old > 0
          /\ k8s_secret.old - 1 + k8s_secret.fresh >= k8s_secret.replicas
          /\ LET c == [k8s_secret EXCEPT !.old = @ - 1]
             IN  k8s_secret' = [c EXCEPT !.status = StatusOf(c)]
    /\ UNCHANGED <<pc, loc, result, err>>
    /\ ClusterFrame

\* A pod of the annotated template passes its readiness probe.
pod_becomes_ready ==
    /\ k8s_secret.starting > 0
    /\ LET c == [k8s_secret EXCEPT !.starting = @ - 1, !.fresh = @ + 1]
       IN  k8s_secret' = [c EXCEPT !.status = StatusOf(c)]
    /\ UNCHANGED <<pc, loc, result, err>>
    /\ ClusterFrame

NextCluster ==
    \/ patch_namespaced_deployment
    \/ ro_deadline
    \/ ro_test
    \/ read_namespaced_deployment_status
    \/ ro_sleep
    \/ deployment_controller
    \/ pod_becomes_ready

SpecCluster == InitCluster /\ [][NextCluster]_vars

\* C39: with the controller running next to the poll loop,
\* rollout_restart_deployment returns normally only after the controller
\* has acted on the restart annotation and every running pod was created
\* from the annotated template; a status read before the controller reacted
\* (the old pods, all ready) is not taken for convergence.
C39_ReturnsAfterControllerActed ==
    (pc = "ro_returned")
        => /\ k8s_secret.observedGeneration = k8s_secret.generation
           /\ k8s_secret.old = 0
           /\ k8s_secret.fresh = k8s_secret.replicas

\* =====================================================================
\* Properties of rotate(), concluded
\* =====================================================================
\* Both slot records the call found were complete, and neither names the
\* administrator account.
PreSlotsDedicated ==
    \A n \in SlotNames :
        /\ DOMAIN pre.secret_slots[n] = SlotKeys
        /\ pre.secret_slots[n]["username"] # pre.secret_admin["username"]

====
